---- MODULE Spec2Model ----
(***************************************************************************)
(* A model of the playback core of Sheet-Music-Tool: the usePlayback hook  *)
(* (parseNotesFromMusicXML: measure walk, sort, tie merge; the scheduler:  *)
(* play / pause / stop / updateTempo / schedulePlayback) and the cursor    *)
(* protocol of SheetDisplay.                                               *)
(*                                                                         *)
(* Time in quarter notes is counted in ticks of 1/TicksPerQuarter quarter, *)
(* so that a doubly dotted 64th and a triplet's 2/3 are whole numbers.      *)
(***************************************************************************)
EXTENDS Integers, Sequences, FiniteSets, TLC

VARIABLES
  \* ---- parseNotesFromMusicXML ----
  pc,            \* position in parseNotesFromMusicXML: "walk", "merge", "done"
  notes,         \* the raw event list (const notes = [])
  merged,        \* the output list of the tie merge
  tieMap,        \* key -> index in merged of the open tie's representative
  mergeIdx,      \* the number of raw events the merge loop has consumed (i)
  owner,         \* history: owner[k] = index in merged that raw event k went to
  \* ---- the measure walk of parseNotesFromMusicXML ----
  partIndex,     \* index of the part being walked
  measureIndex,  \* index of the measure being walked, within the part
  measureStartTime,
  globalDivisions,   \* the document's divisions: declared, or inferred
  divisions,     \* ticks per quarter note in force
  beats,         \* the document's initial time signature
  beatType,
  currentBeats,  \* the time signature in force in the measure being walked
  currentBeatType,
  measureDuration,  \* (currentBeats * 4) / currentBeatType, in model ticks
  cursor,
  maxCursor,
  lastNoteStart,
  prevWasRest,
  voiceCursors,  \* "staff-voice" -> saved cursor
  currentVoice,  \* "staff-voice", or Null
  chordMinDuration,
  chordStartTime,
  inChord,
  hist,          \* history: one entry per child element, measure or part walked
  \* ---- usePlayback: React state and refs ----
  isPlaying,
  isLoading,
  tempo,
  currentPosition,
  pianoRef,          \* TRUE once the sampler is loaded (pianoRef.current)
  scheduledEvents,   \* scheduledEventsRef.current: the ids Transport.schedule gave
  startTime,         \* startTimeRef.current
  pauseTime,         \* pauseTimeRef.current
  notesRef,          \* notesRef.current
  cursorPosition,    \* cursorPositionRef.current
  calls,             \* play() calls suspended at an await
  \* ---- Tone: transport, draw queue, clock ----
  transportState,    \* "stopped", "started", "paused"
  transportPos,      \* the transport's position
  timeline,          \* the events Transport.schedule holds
  nextId,
  drawQueue,         \* callbacks given to Tone.Draw.schedule, not yet run
  now,               \* Tone.now()
  pass,              \* the number of schedulePlayback passes so far
  lastHighlightedTime,   \* pass -> that pass's closure variable
  cursorCalls,       \* history: pass -> what its draw callbacks did so far
  \* ---- SheetDisplay ----
  score,             \* per cursor step: does it hold a sounding note
  visCursor,         \* the display cursor's step (Len(score) + 1: end reached)
  highlighted,
  osmdFails,         \* may the calls into OSMD throw in this display
  \* ---- history ----
  lastOp,            \* the call or callback that ran last, and what it saw
  nOps,              \* calls made by the UI so far
  triggers,          \* note index -> audio triggers in the current run
  runClean,          \* no pause() or stop() call since the run's play()
  cancelledUpTo,     \* passes up to this one were cancelled by stop / updateTempo
  groupPasses        \* scheduling passes run by the current group of play() calls

tieVars == <<pc, notes, merged, tieMap, mergeIdx, owner>>
docVars == <<partIndex, measureIndex, measureStartTime, globalDivisions,
             divisions, beats,
             beatType, currentBeats, currentBeatType, measureDuration>>
measureVars == <<cursor, maxCursor, lastNoteStart, prevWasRest, voiceCursors,
                 currentVoice, chordMinDuration, chordStartTime, inChord>>
walkVars == <<docVars, measureVars, hist>>
hookVars == <<isPlaying, isLoading, tempo, currentPosition, pianoRef,
              scheduledEvents, startTime, pauseTime, notesRef, cursorPosition, calls>>
toneVars == <<transportState, transportPos, timeline, nextId, drawQueue, now,
              pass, lastHighlightedTime, cursorCalls>>
displayVars == <<score, osmdFails, visCursor, highlighted>>
histVars == <<lastOp, nOps, triggers, runClean, cancelledUpTo, groupPasses>>
schedVars == <<hookVars, toneVars, displayVars, histVars>>
vars == <<tieVars, walkVars, schedVars>>

\* ------------------------------------------------------------------ units

TicksPerQuarter == 64 * 3
GraceDuration == TicksPerQuarter \div 8      \* 0.125 quarter
GraceVelocity == 60                          \* 0.6, in hundredths
DefaultVelocity == 70                        \* 0.7, in hundredths

\* ------------------------------------------------------------------ bounds

MaxRaw == 3          \* raw events fed to the tie merge in SpecTie
MaxEls == 4          \* child elements, measure and part boundaries walked
MaxMeasures == 2     \* measures per part
MaxParts == 2        \* parts per document
MaxNow == 7          \* the clock's horizon, in half seconds
MaxOps == 4          \* calls the UI makes (play, pause, stop, setTempo)
MaxCalls == 2        \* play() calls suspended at once
HandlerTime == 1     \* half seconds a rescheduling handler may take

\* ------------------------------------------------------------ tie merge

NoVoice == 0         \* a grace event carries no voice field

\* const key = `${note.pitch}-${note.staff}-${note.partIndex}-${note.voice}`
KeyDropsVoice(note) ==
  note.pitch \o "-" \o ToString(note.staff) \o "-" \o ToString(note.partIndex)

Key(note) ==
  note.pitch \o "-" \o ToString(note.staff) \o "-" \o ToString(note.partIndex)
             \o "-" \o ToString(note.voice)

\* the event pushed with a duration of one quarter
CleanNoteOneQuarter(note) ==
  [pitch |-> note.pitch, time |-> note.time, duration |-> TicksPerQuarter,
   velocity |-> note.velocity, measureIndex |-> note.measureIndex]

\* the bookkeeping fields are deleted before an event is pushed to merged
CleanNote(note) ==
  [pitch |-> note.pitch, time |-> note.time, duration |-> note.duration,
   velocity |-> note.velocity, measureIndex |-> note.measureIndex]

\* merged[origIdx].duration += note.duration
ExtendKeepsDuration(m, origIdx, note) == m

ExtendLastPushed(m, origIdx, note) ==
  [m EXCEPT ![Len(m)].duration = m[Len(m)].duration + note.duration]

Extend(m, origIdx, note) ==
  [m EXCEPT ![origIdx].duration = m[origIdx].duration + note.duration]

MapSet(map, key, idx) ==
  [k \in DOMAIN map \cup {key} |-> IF k = key THEN idx ELSE map[k]]

MapDelete(map, key) ==
  [k \in DOMAIN map \ {key} |-> map[k]]

\* The body of one iteration of the merge loop, on raw event `note`.
MergeOn(note) ==
  LET key == Key(note)
  IN  IF note.isGrace
      THEN /\ merged' = Append(merged, CleanNote(note))
           /\ tieMap' = tieMap
           /\ owner' = Append(owner, Len(merged) + 1)
      ELSE IF note.tieStop /\ key \in DOMAIN tieMap
      THEN /\ merged' = Extend(merged, tieMap[key], note)
           /\ tieMap' = IF note.tieStart THEN tieMap ELSE MapDelete(tieMap, key)
           /\ owner' = Append(owner, tieMap[key])
      ELSE /\ merged' = Append(merged, CleanNote(note))
           /\ tieMap' = IF note.tieStart
                        THEN MapSet(tieMap, key, Len(merged) + 1)
                        ELSE tieMap
           /\ owner' = Append(owner, Len(merged) + 1)

\* for (let i = 0; i < notes.length; i++) { ... }: one iteration
MergeStep ==
  /\ pc = "merge"
  /\ mergeIdx < Len(notes)
  /\ MergeOn(notes[mergeIdx + 1])
  /\ mergeIdx' = mergeIdx + 1
  /\ UNCHANGED <<pc, notes>>
  /\ UNCHANGED walkVars
  /\ UNCHANGED schedVars

\* return merged
MergeReturn ==
  /\ pc = "merge"
  /\ mergeIdx = Len(notes)
  /\ pc' = "done"
  /\ UNCHANGED <<notes, merged, tieMap, mergeIdx, owner>>
  /\ UNCHANGED walkVars
  /\ UNCHANGED schedVars


\* ------------------------------------------------------- the measure walk

Null == "null"
Infinity == 1000000000

Min(a, b) == IF a < b THEN a ELSE b
Max(a, b) == IF a > b THEN a ELSE b

\* typeToQuarters, in model ticks
typeToQuarters ==
  [maxima |-> 32 * TicksPerQuarter, long |-> 16 * TicksPerQuarter,
   breve |-> 8 * TicksPerQuarter, whole |-> 4 * TicksPerQuarter,
   half |-> 2 * TicksPerQuarter, quarter |-> TicksPerQuarter,
   eighth |-> TicksPerQuarter \div 2, n16th |-> TicksPerQuarter \div 4,
   n32nd |-> TicksPerQuarter \div 8, n64th |-> TicksPerQuarter \div 16]

\* a / b for b # 0, the quotient being whole in every case the model draws
Quot(a, b) == IF b > 0 THEN a \div b ELSE -(a \div (-b))

\* parseInt(text) || 1 : a count of 0 (or no number) reads as 1
OrOne(n) == IF n = 0 THEN 1 ELSE n

\* getTupletRatio: <<normal, actual>>; el.actual = 0 /\ el.normal = 0 stands
\* for a note without <time-modification>
getTupletRatio(el) ==
  IF ~el.timeMod THEN <<1, 1>> ELSE <<OrOne(el.normal), OrOne(el.actual)>>

\* dur += dotVal; dotVal /= 2, once per dot
RECURSIVE Dotted(_, _, _)
Dotted(dur, dotVal, dots) ==
  IF dots = 0 THEN dur ELSE Dotted(dur + dotVal, dotVal \div 2, dots - 1)

\* the same with the tuplet ratio applied to the raw duration as well
DurationRatioOnRaw(el, div) ==
  IF el.type \in DOMAIN typeToQuarters
  THEN LET base == typeToQuarters[el.type]
           dur == Dotted(base, base \div 2, el.dots)
           ratio == getTupletRatio(el)
       IN  Quot(dur * ratio[1], ratio[2])
  ELSE IF el.duration # 0 /\ div > 0 /\ el.duration > 0
  THEN Quot(el.duration * TicksPerQuarter * getTupletRatio(el)[1],
            div * getTupletRatio(el)[2])
  ELSE 0

\* getDurationInQuarters, with the divisions in force
getDurationInQuarters(el, div) ==
  IF el.type \in DOMAIN typeToQuarters
  THEN LET base == typeToQuarters[el.type]
           dur == Dotted(base, base \div 2, el.dots)
           ratio == getTupletRatio(el)
       IN  Quot(dur * ratio[1], ratio[2])
  ELSE IF el.duration # 0 /\ div > 0 /\ el.duration > 0
  THEN Quot(el.duration * TicksPerQuarter, div)
  ELSE 0

\* parseFloat(durationEl.textContent) / divisions of a backup or forward
RawQuarters(el, div) == Quot(el.duration * TicksPerQuarter, div)

\* staffEl ? parseInt(staffEl.textContent) || 1 : 1 (0 stands for no element)
StaffOf(el) == OrOne(el.staff)
VoiceOf(el) == OrOne(el.voice)

\* const voiceKey = `${noteStaff}-${noteVoice}`
VoiceKey(el) == ToString(StaffOf(el)) \o "-" \o ToString(VoiceOf(el))

\* step, then '#' for alter 1 or 'b' for alter -1, then octave
NoteName(el) ==
  el.step \o (IF el.alter = 1 THEN "#" ELSE IF el.alter = -1 THEN "b" ELSE "")
          \o el.octave

velocityMap ==
  [ppp |-> 20, pp |-> 30, p |-> 40, mp |-> 50, mf |-> 60, f |-> 75,
   ff |-> 85, fff |-> 95]

\* velocityMap[dynamicValue] || 0.7, and 0.7 without <dynamics>
Velocity(el) ==
  IF el.dynamics \in DOMAIN velocityMap
  THEN velocityMap[el.dynamics] ELSE DefaultVelocity

\* the pending chord's corrected cursor, when it is smaller
ChordAdjusted(c, open, minDur, start) ==
  IF open /\ minDur # Infinity /\ start + minDur < c THEN start + minDur ELSE c

\* history of one walked element: where it was met, the cursor after it, and
\* the onset (within the measure) of the event it emitted, if any
HistEntry(el, cAfter, emitted, onset) ==
  [el |-> el, part |-> partIndex, measure |-> measureIndex,
   mstart |-> measureStartTime, cursorAfter |-> cAfter, emitted |-> emitted,
   onset |-> onset]

\* cursor -= dur; if (cursor < 0) cursor = 0
BackupTargetNoClamp(c, dur) == c - dur

BackupTarget(c, dur) == Max(c - dur, 0)

Walking == pc = "walk" /\ Len(hist) < MaxEls

\* if (el.tagName === 'backup') { ... continue; }
ProcessBackup(el) ==
  /\ Walking
  /\ el.tag = "backup"
  /\ LET saved == IF currentVoice # Null
                  THEN ChordAdjusted(cursor, inChord, chordMinDuration, chordStartTime)
                  ELSE cursor
         dur == RawQuarters(el, divisions)
         moved == IF el.duration # 0 /\ divisions > 0 /\ dur > 0
                  THEN BackupTarget(saved, dur) ELSE saved
     IN  /\ voiceCursors' = IF currentVoice # Null
                            THEN MapSet(voiceCursors, currentVoice, saved)
                            ELSE voiceCursors
         /\ cursor' = moved
         /\ hist' = Append(hist, HistEntry(el, moved, FALSE, 0))
  /\ prevWasRest' = FALSE
  /\ currentVoice' = Null
  /\ inChord' = FALSE
  /\ chordMinDuration' = Infinity
  /\ UNCHANGED <<maxCursor, lastNoteStart, chordStartTime>>
  /\ UNCHANGED <<docVars, tieVars>>
  /\ UNCHANGED schedVars

\* if (el.tagName === 'forward') { ... continue; }
ProcessForward(el) ==
  /\ Walking
  /\ el.tag = "forward"
  /\ LET dur == RawQuarters(el, divisions)
         moved == IF el.duration # 0 /\ divisions > 0 /\ dur > 0
                  THEN cursor + dur ELSE cursor
     IN  /\ cursor' = moved
         /\ hist' = Append(hist, HistEntry(el, moved, FALSE, 0))
  /\ inChord' = FALSE
  /\ chordMinDuration' = Infinity
  /\ UNCHANGED <<maxCursor, lastNoteStart, prevWasRest, voiceCursors,
                 currentVoice, chordStartTime>>
  /\ UNCHANGED <<docVars, tieVars>>
  /\ UNCHANGED schedVars

\* a <note> with <cue>: skipped
ProcessCue(el) ==
  /\ Walking
  /\ el.tag = "note" /\ el.cue
  /\ hist' = Append(hist, HistEntry(el, cursor, FALSE, 0))
  /\ UNCHANGED <<measureVars, docVars, tieVars>>
  /\ UNCHANGED schedVars

GraceEvent(el) ==
  [pitch |-> NoteName(el),
   time |-> Max(0, measureStartTime + cursor - GraceDuration),
   duration |-> GraceDuration, velocity |-> GraceVelocity,
   measureIndex |-> measureIndex, tieStart |-> FALSE, tieStop |-> FALSE,
   partIndex |-> partIndex, staff |-> StaffOf(el), voice |-> NoVoice,
   isGrace |-> TRUE]

\* a <note> with <grace>: an event of its own, nothing else changes
ProcessGrace(el) ==
  /\ Walking
  /\ el.tag = "note" /\ ~el.cue /\ el.grace
  /\ IF el.hasPitch /\ el.step # "" /\ el.octave # ""
     THEN /\ notes' = Append(notes, GraceEvent(el))
          /\ hist' = Append(hist, HistEntry(el, cursor, TRUE,
                                          GraceEvent(el).time - measureStartTime))
     ELSE /\ notes' = notes
          /\ hist' = Append(hist, HistEntry(el, cursor, FALSE, 0))
  /\ UNCHANGED <<measureVars, docVars>>
  /\ UNCHANGED <<pc, merged, tieMap, mergeIdx, owner>>
  /\ UNCHANGED schedVars

NoteEvent(el, noteTime, duration) ==
  [pitch |-> NoteName(el),
   time |-> measureStartTime + noteTime,
   duration |-> IF duration > 0 THEN duration ELSE TicksPerQuarter \div 4,
   velocity |-> Velocity(el), measureIndex |-> measureIndex,
   tieStart |-> "start" \in (el.tie \cup el.tied),
   tieStop |-> "stop" \in (el.tie \cup el.tied),
   partIndex |-> partIndex, staff |-> StaffOf(el), voice |-> VoiceOf(el),
   isGrace |-> FALSE]

\* a rest: cursor += duration only for a positive duration, no chord correction
RestAdvance(c, el, duration) ==
  IF ~el.chord /\ duration > 0 THEN c + duration ELSE c

\* a <note> that is neither cue nor grace: voice switch, then rest, chord
\* member or new note
ProcessNote(el) ==
  /\ Walking
  /\ el.tag = "note" /\ ~el.cue /\ ~el.grace
  /\ LET duration == getDurationInQuarters(el, divisions)
         voiceKey == VoiceKey(el)
         switching == currentVoice # Null /\ voiceKey # currentVoice
         saved == ChordAdjusted(cursor, inChord, chordMinDuration, chordStartTime)
         vc1 == IF switching THEN MapSet(voiceCursors, currentVoice, saved)
                ELSE voiceCursors
         c1 == IF switching
               THEN (IF voiceKey \in DOMAIN vc1 THEN vc1[voiceKey] ELSE saved)
               ELSE cursor
         inChord1 == IF switching THEN FALSE ELSE inChord
         minDur1 == IF switching THEN Infinity ELSE chordMinDuration
     IN  /\ currentVoice' = voiceKey
         /\ IF el.rest
            THEN LET c2 == RestAdvance(c1, el, duration)
                 IN  /\ cursor' = c2
                     /\ maxCursor' = IF ~el.chord /\ duration > 0
                                     THEN Max(maxCursor, c2) ELSE maxCursor
                     /\ voiceCursors' = IF ~el.chord /\ duration > 0
                                        THEN MapSet(vc1, voiceKey, c2) ELSE vc1
                     /\ inChord' = FALSE
                     /\ chordMinDuration' = Infinity
                     /\ prevWasRest' = TRUE
                     /\ hist' = Append(hist, HistEntry(el, c2, FALSE, 0))
                     /\ UNCHANGED <<lastNoteStart, chordStartTime, notes>>
            ELSE IF ~(el.hasPitch /\ el.step # "" /\ el.octave # "")
            THEN /\ cursor' = c1
                 /\ voiceCursors' = vc1
                 /\ inChord' = inChord1
                 /\ chordMinDuration' = minDur1
                 /\ hist' = Append(hist, HistEntry(el, c1, FALSE, 0))
                 /\ UNCHANGED <<maxCursor, lastNoteStart, prevWasRest,
                                chordStartTime, notes>>
            ELSE IF el.chord /\ ~prevWasRest
            THEN /\ cursor' = c1
                 /\ voiceCursors' = vc1
                 /\ chordMinDuration' = Min(minDur1, duration)
                 /\ inChord' = TRUE
                 /\ prevWasRest' = FALSE
                 /\ notes' = Append(notes, NoteEvent(el, lastNoteStart, duration))
                 /\ hist' = Append(hist, HistEntry(el, c1, TRUE, lastNoteStart))
                 /\ UNCHANGED <<maxCursor, lastNoteStart, chordStartTime>>
            ELSE LET c2 == ChordAdjusted(c1, inChord1, minDur1, chordStartTime)
                     vc2 == IF c2 < c1 THEN MapSet(vc1, voiceKey, c2) ELSE vc1
                     c3 == c2 + duration
                 IN  /\ inChord' = FALSE
                     /\ chordMinDuration' = duration
                     /\ chordStartTime' = c2
                     /\ lastNoteStart' = c2
                     /\ cursor' = c3
                     /\ maxCursor' = Max(maxCursor, c3)
                     /\ voiceCursors' = MapSet(vc2, voiceKey, c3)
                     /\ prevWasRest' = FALSE
                     /\ notes' = Append(notes, NoteEvent(el, c2, duration))
                     /\ hist' = Append(hist, HistEntry(el, c3, TRUE, c2))
  /\ UNCHANGED docVars
  /\ UNCHANGED <<pc, merged, tieMap, mergeIdx, owner>>
  /\ UNCHANGED schedVars

\* the state a measure starts in
MeasureReset ==
  /\ cursor' = 0
  /\ maxCursor' = 0
  /\ lastNoteStart' = 0
  /\ prevWasRest' = FALSE
  /\ voiceCursors' = <<>>
  /\ currentVoice' = Null
  /\ chordMinDuration' = Infinity
  /\ chordStartTime' = 0
  /\ inChord' = FALSE

\* a measure's <attributes><time>: its <beats> and <beat-type>, 0 for a
\* missing or unreadable number; NoTime is a measure without a <time>
NoTime == [beats |-> 0, beatType |-> 0]

\* parseInt(text) || current
OrCurrent(n, current) == IF n = 0 THEN current ELSE n

\* const measureDuration = (currentBeats * 4) / currentBeatType
MeasureDurationOf(b, bt) == Quot(b * 4 * TicksPerQuarter, bt)

\* the time signature check at the top of a measure, from the signature in
\* force before it
MeasureTime(time, b, bt) ==
  /\ currentBeats' = OrCurrent(time.beats, b)
  /\ currentBeatType' = OrCurrent(time.beatType, bt)
  /\ measureDuration' = MeasureDurationOf(OrCurrent(time.beats, b),
                                          OrCurrent(time.beatType, bt))

\* the advance by the time signature alone
NominalAdvance(duration, furthest) == duration

\* Math.max(measureDuration, maxCursor)
MeasureAdvance(duration, furthest) == Max(duration, furthest)

\* the divisions of a note the inference loop stops at, 0 for a note it
\* passes over: a grace note, a chord member, a rest, a tuplet note, a note
\* without a known <type> or without a <duration>, or one that yields less
\* than 1
inferredDivisions(el) ==
  IF el.tag # "note" \/ el.grace \/ el.chord \/ el.rest \/ el.timeMod
  THEN 0
  ELSE IF el.type \in DOMAIN typeToQuarters /\ el.duration > 0
  THEN LET expectedQuarters ==
             Dotted(typeToQuarters[el.type], typeToQuarters[el.type] \div 2,
                    el.dots)
       IN  IF el.duration * TicksPerQuarter >= expectedQuarters
           THEN Quot(el.duration * TicksPerQuarter, expectedQuarters)
           ELSE 0
  ELSE 0

\* for (const noteEl of allNotes): the first note that yields divisions
RECURSIVE InferFrom(_)
InferFrom(allNotes) ==
  IF allNotes = <<>> THEN 0
  ELSE IF inferredDivisions(Head(allNotes)) # 0
  THEN inferredDivisions(Head(allNotes))
  ELSE InferFrom(Tail(allNotes))

\* globalDivisions after the inference loop: the declared value (0: none, or
\* unreadable) || 1, replaced by the inferred one
GlobalDivisionsOf(declared, allNotes) ==
  IF InferFrom(allNotes) # 0 THEN InferFrom(allNotes) ELSE OrOne(declared)

\* a measure's <attributes><divisions> (0: none): if (!isNaN(newDiv) &&
\* newDiv > 0) divisions = newDiv
MeasureDivisions(newDiv, current) == IF newDiv > 0 THEN newDiv ELSE current

\* measureStartTime += Math.max(measureDuration, maxCursor), and the next
\* measure of the part begins, with one of the given <time> elements and one
\* of the given <divisions>
NextMeasureWith(times, divs) ==
  /\ Walking
  /\ measureIndex + 1 < MaxMeasures
  /\ measureStartTime' = measureStartTime
                          + MeasureAdvance(measureDuration, maxCursor)
  /\ measureIndex' = measureIndex + 1
  /\ \E time \in times : MeasureTime(time, currentBeats, currentBeatType)
  /\ \E newDiv \in divs : divisions' = MeasureDivisions(newDiv, divisions)
  /\ MeasureReset
  /\ hist' = Append(hist, HistEntry([tag |-> "measure"], cursor, FALSE, 0))
  /\ UNCHANGED <<partIndex, globalDivisions, beats, beatType>>
  /\ UNCHANGED tieVars
  /\ UNCHANGED schedVars

\* the same, the measure having no <divisions>
NextMeasureOf(times) == NextMeasureWith(times, {0})

NextMeasure == NextMeasureOf({NoTime})

\* parts.forEach: the next part starts again at time 0 and at the document's
\* initial time signature; its first measure has one of the given <time>
\* elements
NextPartOf(times) ==
  /\ Walking
  /\ partIndex + 1 < MaxParts
  /\ partIndex' = partIndex + 1
  /\ measureIndex' = 0
  /\ measureStartTime' = 0
  /\ \E time \in times : MeasureTime(time, beats, beatType)
  /\ MeasureReset
  /\ hist' = Append(hist, HistEntry([tag |-> "part"], cursor, FALSE, 0))
  /\ divisions' = globalDivisions
  /\ UNCHANGED <<globalDivisions, beats, beatType>>
  /\ UNCHANGED tieVars
  /\ UNCHANGED schedVars

NextPart == NextPartOf({NoTime})

\* notes.sort((a, b) => a.time - b.time): a stable sort
RECURSIVE InsertByTime(_, _)
InsertByTime(sorted, note) ==
  IF sorted = <<>> THEN <<note>>
  ELSE IF sorted[Len(sorted)].time <= note.time THEN Append(sorted, note)
  ELSE Append(InsertByTime(SubSeq(sorted, 1, Len(sorted) - 1), note),
              sorted[Len(sorted)])

RECURSIVE SortByTime(_)
SortByTime(seq) ==
  IF seq = <<>> THEN <<>>
  ELSE InsertByTime(SortByTime(SubSeq(seq, 1, Len(seq) - 1)), seq[Len(seq)])

\* the walk is over: sort the raw events and enter the merge loop
SortNotes ==
  /\ pc = "walk"
  /\ notes' = SortByTime(notes)
  /\ pc' = "merge"
  /\ UNCHANGED <<merged, tieMap, mergeIdx, owner>>
  /\ UNCHANGED walkVars
  /\ UNCHANGED schedVars

\* the walk variables at the first measure of the first part, in a document
\* whose first <time> reads b / bt (let beats = 4; let beatType = 4 without
\* one), whose divisions are global and whose first measure declares newDiv
WalkStartWith(b, bt, global, newDiv) ==
  /\ partIndex = 0
  /\ measureIndex = 0
  /\ measureStartTime = 0
  /\ globalDivisions = global
  /\ divisions = MeasureDivisions(newDiv, global)
  /\ beats = OrCurrent(b, 4)
  /\ beatType = OrCurrent(bt, 4)
  /\ currentBeats = beats
  /\ currentBeatType = beatType
  /\ measureDuration = MeasureDurationOf(beats, beatType)
  /\ cursor = 0
  /\ maxCursor = 0
  /\ lastNoteStart = 0
  /\ prevWasRest = FALSE
  /\ voiceCursors = <<>>
  /\ currentVoice = Null
  /\ chordMinDuration = Infinity
  /\ chordStartTime = 0
  /\ inChord = FALSE
  /\ hist = <<>>

\* the same in a document without <divisions> and without a note to infer
\* them from
WalkStart(b, bt) == WalkStartWith(b, bt, 1, 0)

\* the walk variables while only the tie merge runs
WalkIdle == WalkStart(4, 4)


\* ------------------------------------------------- the playback scheduler

\* Seconds are counted in ticks of 1/TicksPerSecond second.
TicksPerSecond == 2
TailBuffer == 1               \* totalDuration + 0.5
DEFAULT_TEMPO == 120
Tempos == {60, 120}           \* the tempo values the UI passes to setTempo

\* quarters * secondsPerQuarter, with secondsPerQuarter = 60 / tempo; a time
\* between two ticks of the clock counts as the tick before it
InSeconds(quarterTicks, tpo) ==
  (quarterTicks * 60 * TicksPerSecond) \div (tpo * TicksPerQuarter)

MergedNote(t, d) ==
  [pitch |-> "C4", time |-> t * TicksPerQuarter, duration |-> d * TicksPerQuarter,
   velocity |-> DefaultVelocity, measureIndex |-> 0]

\* The documents given to play(), each as the list parseNotesFromMusicXML
\* returns for it: one without notes, one with three quarter notes in a row.
SchedDocs == {<<>>, <<MergedNote(0, 1), MergedNote(1, 1), MergedNote(2, 1)>>}

\* the score SheetDisplay renders for them: three note-bearing cursor steps
SchedScores == {<<"note", "note", "note">>}

\* A rendered score is the list of its cursor steps, one quarter apart. A step
\* holds a plain note ("note"), a note that a tie joins to the note of the step
\* before ("tieStop"), a note with a grace note before it ("grace"), or a rest.
StepKinds == {"note", "tieStop", "grace", "rest"}

\* cursorHasNotes: some entry under the cursor is not a rest and has a pitch
AnyStep(step) == TRUE

cursorHasNotes(step) == step # "rest"

\* the timestamp of a cursor step, in quarter ticks
StepTime(pos) == (pos - 1) * TicksPerQuarter

\* the steps a tie joins to the note at step pos
RECURSIVE TiedAfter(_, _)
TiedAfter(sc, pos) ==
  IF pos + 1 <= Len(sc) /\ sc[pos + 1] = "tieStop"
  THEN 1 + TiedAfter(sc, pos + 1) ELSE 0

\* the grace event pushed before the main note at quarter time t
GraceNote(t) ==
  [pitch |-> "C4", time |-> Max(0, t - GraceDuration), duration |-> GraceDuration,
   velocity |-> GraceVelocity, measureIndex |-> 0]

\* the events parseNotesFromMusicXML returns for the score's document: a tie
\* stop is absorbed into the note it continues, a rest gives nothing, a grace
\* note is an event of its own just before its main note
RECURSIVE ScoreNotesFrom(_, _)
ScoreNotesFrom(sc, pos) ==
  IF pos > Len(sc) THEN <<>>
  ELSE LET main == [MergedNote(pos - 1, 1) EXCEPT
                      !.duration = (1 + TiedAfter(sc, pos)) * TicksPerQuarter]
           here == IF sc[pos] = "note" THEN <<main>>
                   ELSE IF sc[pos] = "grace" THEN <<GraceNote(StepTime(pos)), main>>
                   ELSE <<>>
       IN  here \o ScoreNotesFrom(sc, pos + 1)

ScoreNotes(sc) == ScoreNotesFrom(sc, 1)

Range(seq) == {seq[i] : i \in DOMAIN seq}

\* ---- SheetDisplay: the cursor protocol

\* no step is skipped
NoSkip(pos) == pos

\* while (!EndReached && !cursorHasNotes()) cursor.next()
RECURSIVE SkipRests(_)
SkipRests(pos) ==
  IF pos > Len(score) \/ cursorHasNotes(score[pos]) THEN pos ELSE SkipRests(pos + 1)

\* one step and no more
AdvanceOneStep(pos) == IF pos > Len(score) THEN pos ELSE pos + 1

\* advanceCursor: nothing at the end; else one step, then the rest-only steps
AdvanceCursorPos(pos) == IF pos > Len(score) THEN pos ELSE SkipRests(pos + 1)

\* resetCursor: cursor.reset(), then the leading rest-only steps
ResetCursorPos == SkipRests(1)

\* Where advanceCursor may leave the cursor. With OSMD working, on
\* AdvanceCursorPos. cursor.next() throwing ends the walk where it is (catch:
\* return false), NotesUnderCursor() throwing makes cursorHasNotes answer
\* true, which ends the skipping: any step on the way.
AdvanceCursorOutcomes(pos) ==
  IF osmdFails THEN pos..AdvanceCursorPos(pos) ELSE {AdvanceCursorPos(pos)}

\* Where resetCursor may leave the cursor: where it was when cursor.reset()
\* throws, else any step up to ResetCursorPos.
ResetCursorOutcomes(pos) ==
  IF osmdFails THEN {pos} \cup 1..ResetCursorPos ELSE {ResetCursorPos}

\* highlightNotesAtTime: are notes red after it. cursor.show() or
\* GNotesUnderCursor() throwing leaves them as resetAllRedElements made them.
HighlightOutcomes == IF osmdFails THEN BOOLEAN ELSE {TRUE}

\* an exception of OSMD gets out of resetCursor
ResetCursorMayThrow == osmdFails

\* resetCursor: try { ... } catch { // Ignore }
ResetCursorThrows == FALSE

\* ---- schedulePlayback

\* the notes not skipped: timeInSeconds >= startOffset
Scheduled(notesL, startOffset, tpo) ==
  {i \in 1..Len(notesL) : InSeconds(notesL[i].time, tpo) >= startOffset}

\* Math.round(note.time * 1000)
NoteTimeKey(note) == (note.time * 1000 + TicksPerQuarter \div 2) \div TicksPerQuarter

\* the Transport.schedule call of each scheduled note, ids in loop order; the
\* callback keeps the note it was created for
NoteEvents(notesL, startOffset, tpo, firstId, p) ==
  LET S == Scheduled(notesL, startOffset, tpo)
  IN  {[id |-> firstId + Cardinality({j \in S : j < i}),
        time |-> InSeconds(notesL[i].time, tpo) - startOffset,
        kind |-> "note", idx |-> i,
        dur |-> InSeconds(notesL[i].duration, tpo),
        key |-> NoteTimeKey(notesL[i]), measure |-> notesL[i].measureIndex,
        pass |-> p, fired |-> FALSE] : i \in S}

\* the auto-stop, after the last note of the list
EndEvents(notesL, startOffset, tpo, firstId, p) ==
  IF notesL = <<>> THEN {}
  ELSE LET lastNote == notesL[Len(notesL)]
       IN  {[id |-> firstId + Cardinality(Scheduled(notesL, startOffset, tpo)),
             time |-> InSeconds(lastNote.time + lastNote.duration, tpo)
                        - startOffset + TailBuffer,
             kind |-> "end", idx |-> 0, dur |-> 0, key |-> 0, measure |-> 0,
             pass |-> p, fired |-> FALSE]}

\* history of a pass that has just been scheduled: the onset keys of the
\* notes it scheduled, the keys whose draw callbacks have run, the number of
\* advanceCursor() calls, the keys highlightNotesAtTime() was called for, and
\* the number of cursor calls of the pass in which OSMD threw
NoCursorCalls(notesL, startOffset, tpo) ==
  [keys |-> {NoteTimeKey(notesL[i]) : i \in Scheduled(notesL, startOffset, tpo)},
   drawn |-> {}, advanceCursor |-> 0, highlightNotesAtTime |-> <<>>,
   faults |-> 0]

\* schedulePlayback(notesL, startOffset) of a render whose tempo is tpo, on a
\* transport holding the events tl
SchedulePlayback(notesL, startOffset, tpo, tl) ==
  IF ~pianoRef
  THEN /\ timeline' = tl
       /\ UNCHANGED <<scheduledEvents, nextId, pass, lastHighlightedTime, cursorCalls,
                      cursorPosition, visCursor>>
  ELSE LET kept == {e \in tl : e.id \notin Range(scheduledEvents)}
           new == NoteEvents(notesL, startOffset, tpo, nextId, pass + 1)
                    \cup EndEvents(notesL, startOffset, tpo, nextId, pass + 1)
       IN  /\ cursorPosition' = 0
           /\ \/ /\ ResetCursorThrows
                 /\ visCursor' \in ResetCursorOutcomes(visCursor)
                 /\ timeline' = kept
                 /\ scheduledEvents' = <<>>
                 /\ UNCHANGED <<nextId, pass, lastHighlightedTime, cursorCalls>>
              \/ \E pos \in ResetCursorOutcomes(visCursor) :
                   /\ visCursor' = pos
                   /\ timeline' = kept \cup new
                   /\ scheduledEvents' =
                        [k \in 1..Cardinality(new) |-> nextId + k - 1]
                   /\ nextId' = nextId + Cardinality(new)
                   /\ pass' = pass + 1
                   /\ lastHighlightedTime' = MapSet(lastHighlightedTime, pass + 1, -1)
                   /\ cursorCalls' =
                        MapSet(cursorCalls, pass + 1,
                               [NoCursorCalls(notesL, startOffset, tpo) EXCEPT
                                  !.faults = IF pos = ResetCursorPos THEN 0 ELSE 1])

\* the schedulePlayback call of this step was left by an exception
ScheduleThrew == pianoRef /\ pass' = pass

\* ---- history

\* Stopped, Playing or Paused, as the hook and the transport show it
SchedulerState ==
  IF isPlaying THEN "Playing"
  ELSE IF transportState = "paused" THEN "Paused" ELSE "Stopped"

\* outcome: how the promise of a play() call that ended in this step was
\* settled ("none" for every other step)
Op(op, elapsed, arg, stale, auto) ==
  [op |-> op, from |-> SchedulerState, called |-> SchedulerState,
   elapsed |-> elapsed, arg |-> arg, stale |-> stale, auto |-> auto,
   outcome |-> "none"]

\* an async function that returns: its promise is fulfilled
Returned == "fulfilled"

\* catch (err) { console.error('Playback error:', err); } and no rethrow: the
\* function returns
Caught == Returned

UiCall == nOps < MaxOps /\ nOps' = nOps + 1

\* ---- play

\* play(musicxml): the isPlaying guard, then await Tone.start()
\* if (isPlaying) return
PlayNeverRejected == FALSE

PlayRejected == isPlaying

\* the tempo of the render whose schedulePlayback a handler holds
RenderedTempo == tempo

\* a suspended call keeps the closure's tempo and document; from and stored
\* record the state and the stored tempo at the time of the call
PlayCallOf(docs) ==
  /\ UiCall
  /\ Len(calls) < MaxCalls
  /\ \E doc \in docs :
       calls' = IF PlayRejected THEN calls
                ELSE Append(calls, [stage |-> "start", tempo |-> RenderedTempo,
                                    doc |-> doc, from |-> SchedulerState,
                                    stored |-> tempo])
  /\ groupPasses' = IF ~isPlaying /\ calls = <<>> THEN 0 ELSE groupPasses
  /\ lastOp' = [Op("play", 0, 0, FALSE, FALSE)
                  EXCEPT !.outcome = IF PlayRejected THEN Returned ELSE "none"]
  /\ UNCHANGED <<isPlaying, isLoading, tempo, currentPosition, pianoRef,
                 scheduledEvents, startTime, pauseTime, notesRef, cursorPosition>>
  /\ UNCHANGED <<toneVars, displayVars, triggers, runClean, cancelledUpTo>>
  /\ UNCHANGED <<tieVars, walkVars>>

PlayCall == PlayCallOf(SchedDocs)

\* play(musicxml) as the app calls it: with the document on display
PlayDisplayed == PlayCallOf({ScoreNotes(score)})

SetStage(i, stage) == [calls EXCEPT ![i].stage = stage]

Remove(seq, i) == SubSeq(seq, 1, i - 1) \o SubSeq(seq, i + 1, Len(seq))

\* Tone.start() resolved; initPiano returns the loaded sampler or starts loading
PlayInit ==
  /\ \E i \in DOMAIN calls :
       /\ calls[i].stage = "start"
       /\ IF pianoRef
          THEN calls' = SetStage(i, "ready") /\ isLoading' = isLoading
          ELSE calls' = SetStage(i, "load") /\ isLoading' = TRUE
  /\ lastOp' = Op("initPiano", 0, 0, FALSE, FALSE)
  /\ UNCHANGED <<isPlaying, tempo, currentPosition, pianoRef, scheduledEvents,
                 startTime, pauseTime, notesRef, cursorPosition>>
  /\ UNCHANGED <<toneVars, displayVars, nOps, triggers, runClean, cancelledUpTo,
                 groupPasses>>
  /\ UNCHANGED <<tieVars, walkVars>>

\* Tone.loaded() resolved
PlayLoaded ==
  /\ \E i \in DOMAIN calls :
       /\ calls[i].stage = "load"
       /\ calls' = SetStage(i, "ready")
  /\ pianoRef' = TRUE
  /\ isLoading' = FALSE
  /\ lastOp' = Op("loaded", 0, 0, FALSE, FALSE)
  /\ UNCHANGED <<isPlaying, tempo, currentPosition, scheduledEvents, startTime,
                 pauseTime, notesRef, cursorPosition>>
  /\ UNCHANGED <<toneVars, displayVars, nOps, triggers, runClean, cancelledUpTo,
                 groupPasses>>
  /\ UNCHANGED <<tieVars, walkVars>>

\* the loading flag left as it is
LoadingStays == isLoading

\* initPiano's catch: setIsLoading(false)
LoadingAfterFailure == FALSE

\* Tone.loaded() rejected: initPiano rethrows, play() catches and logs
PlayLoadFailed ==
  /\ \E i \in DOMAIN calls :
       /\ calls[i].stage = "load"
       /\ calls' = Remove(calls, i)
  /\ isLoading' = LoadingAfterFailure
  /\ lastOp' = [Op("loadFailed", 0, 0, FALSE, FALSE) EXCEPT !.outcome = Caught]
  /\ UNCHANGED <<isPlaying, tempo, currentPosition, pianoRef, scheduledEvents,
                 startTime, pauseTime, notesRef, cursorPosition>>
  /\ UNCHANGED <<toneVars, displayVars, nOps, triggers, runClean, cancelledUpTo,
                 groupPasses>>
  /\ UNCHANGED <<tieVars, walkVars>>

\* a list that is taken to hold notes whatever its length
NeverEmpty(noteList) == FALSE

\* if (notes.length === 0)
NoNotes(noteList) == Len(noteList) = 0

\* play() after its awaits: parse, schedule from 0, start the transport. The
\* schedulePlayback it calls is the one of the render play() was called in.
PlayContinue ==
  \E i \in DOMAIN calls :
    /\ calls[i].stage = "ready"
    /\ calls' = Remove(calls, i)
    /\ notesRef' = calls[i].doc
    /\ IF NoNotes(calls[i].doc)
       THEN /\ lastOp' = [Op("playEmpty", 0, 0, FALSE, FALSE)
                            EXCEPT !.outcome = Returned]
            /\ UNCHANGED <<isPlaying, scheduledEvents, startTime, pauseTime,
                           cursorPosition>>
            /\ UNCHANGED <<toneVars, visCursor, triggers, runClean, groupPasses>>
       ELSE /\ pauseTime' = 0
            /\ SchedulePlayback(calls[i].doc, 0, calls[i].tempo, timeline)
            /\ IF ScheduleThrew
               THEN /\ lastOp' = [Op("playFailed", 0, 0, FALSE, FALSE)
                                    EXCEPT !.outcome = Caught]
                    /\ UNCHANGED <<startTime, transportState, isPlaying, triggers,
                                   runClean, groupPasses>>
               ELSE /\ startTime' = now
                    /\ transportState' = "started"
                    /\ isPlaying' = TRUE
                    /\ triggers' = [k \in 1..Len(calls[i].doc) |-> 0]
                    /\ runClean' = (SchedulerState = "Stopped" /\ groupPasses = 0)
                    /\ groupPasses' = groupPasses + 1
                    /\ lastOp' = [Op("playStarted", 0, calls[i].stored, FALSE, FALSE)
                                     EXCEPT !.called = calls[i].from,
                                            !.outcome = Returned]
            /\ UNCHANGED <<transportPos, drawQueue, now>>
    /\ UNCHANGED <<isLoading, tempo, currentPosition, pianoRef>>
    /\ UNCHANGED <<score, osmdFails, highlighted, nOps, cancelledUpTo>>
    /\ UNCHANGED <<tieVars, walkVars>>

\* ---- pause

\* the clock's reading, not the time elapsed since the run started
PausedAtNow == now

\* pauseTimeRef.current = Tone.now() - startTimeRef.current
PausedAt == now - startTime

Pause ==
  /\ UiCall
  /\ IF ~isPlaying
     THEN UNCHANGED <<isPlaying, pauseTime, transportState, highlighted>>
     ELSE /\ transportState' = "paused"
          /\ pauseTime' = PausedAt
          /\ isPlaying' = FALSE
          /\ highlighted' = FALSE
  /\ runClean' = FALSE
  /\ lastOp' = Op("pause", now - startTime, 0, FALSE, FALSE)
  /\ UNCHANGED <<isLoading, tempo, currentPosition, pianoRef, scheduledEvents,
                 startTime, notesRef, cursorPosition, calls>>
  /\ UNCHANGED <<transportPos, timeline, nextId, drawQueue, now, pass,
                 lastHighlightedTime, cursorCalls>>
  /\ UNCHANGED <<score, osmdFails, visCursor, triggers, cancelledUpTo, groupPasses>>
  /\ UNCHANGED <<tieVars, walkVars>>

\* ---- stop

\* scheduledEventsRef.current = []
KeptSchedule == scheduledEvents

ClearedSchedule == <<>>

\* the body of stop()
StopBody ==
  /\ transportState' = "stopped"
  /\ transportPos' = 0
  /\ timeline' = {}
  /\ pauseTime' = 0
  /\ cursorPosition' = 0
  /\ isPlaying' = FALSE
  /\ currentPosition' = 0
  /\ scheduledEvents' = ClearedSchedule
  /\ highlighted' = FALSE
  /\ cancelledUpTo' = pass
  /\ UNCHANGED <<isLoading, tempo, pianoRef, startTime, notesRef, calls>>
  /\ UNCHANGED <<nextId, drawQueue, now, pass, lastHighlightedTime, cursorCalls>>
  /\ UNCHANGED <<score, osmdFails, visCursor, triggers, groupPasses>>
  /\ UNCHANGED <<tieVars, walkVars>>

\* stop() called from outside the scheduler
Stop ==
  /\ UiCall
  /\ StopBody
  /\ runClean' = FALSE
  /\ lastOp' = Op("stop", now - startTime, 0, FALSE, FALSE)

\* ---- updateTempo

\* startTimeRef.current = Tone.now() - currentTime
ReanchorAtNow(nowAfter, currentTime) == nowAfter

Reanchor(nowAfter, currentTime) == nowAfter - currentTime

\* setTempo(newTempo): store it; while playing, cancel and reschedule with the
\* schedulePlayback of the current render, whose tempo is the one in force
\* before this call
UpdateTempoOf(values) ==
  /\ UiCall
  /\ \E newTempo \in values :
       /\ tempo' = newTempo
       /\ lastOp' = Op("setTempo", now - startTime, newTempo, FALSE, FALSE)
  /\ IF isPlaying /\ Len(notesRef) > 0
     THEN LET currentTime == now - startTime
          IN  /\ SchedulePlayback(notesRef, currentTime, tempo, {})
              /\ IF ScheduleThrew
                 THEN /\ transportState' = "stopped"
                      /\ UNCHANGED <<now, startTime>>
                 ELSE /\ \E dt \in 0..HandlerTime :
                           /\ now + dt <= MaxNow
                           /\ now' = now + dt
                           /\ startTime' = Reanchor(now + dt, currentTime)
                      /\ transportState' = "started"
              /\ transportPos' = 0
              /\ cancelledUpTo' = pass
     ELSE UNCHANGED <<scheduledEvents, startTime, cursorPosition, transportState,
                      transportPos, timeline, nextId, now, pass,
                      lastHighlightedTime, cursorCalls, visCursor,
                      cancelledUpTo>>
  /\ UNCHANGED <<isPlaying, isLoading, currentPosition, pianoRef, pauseTime,
                 notesRef, calls>>
  /\ UNCHANGED <<drawQueue, score, osmdFails, highlighted, triggers, runClean,
                 groupPasses>>
  /\ UNCHANGED <<tieVars, walkVars>>

\* the tempo slider: onTempoChange(parseInt(e.target.value))
UpdateTempo == UpdateTempoOf(Tempos)

MIN_TEMPO == 20
MAX_TEMPO == 300

\* the tempo values a processed document may carry
DocumentTempos == {15, 400}

\* handleProcessed: if (data.tempo) playback.setTempo(data.tempo)
HandleProcessed == UpdateTempoOf(DocumentTempos \ {0})

\* ---- the transport and the draw loop

\* the events due now, not yet invoked
Due == {e \in timeline : ~e.fired /\ e.time = transportPos}

NextDue(e) ==
  /\ transportState = "started"
  /\ e \in Due
  /\ \A f \in Due : e.id <= f.id

\* a note's Transport callback: the audio trigger, and the highlight update
\* handed to Tone.Draw
FireNote ==
  \E e \in timeline :
    /\ NextDue(e)
    /\ e.kind = "note"
    /\ timeline' = (timeline \ {e}) \cup {[e EXCEPT !.fired = TRUE]}
    /\ drawQueue' = Append(drawQueue, [pass |-> e.pass, idx |-> e.idx, key |-> e.key,
                                      measure |-> e.measure])
    /\ triggers' = [triggers EXCEPT ![e.idx] = @ + 1]
    /\ lastOp' = Op("audio", now - startTime, e.idx, e.pass <= cancelledUpTo, FALSE)
    /\ UNCHANGED <<hookVars, displayVars, nOps, runClean, cancelledUpTo, groupPasses>>
    /\ UNCHANGED <<transportState, transportPos, nextId, now, pass,
                   lastHighlightedTime, cursorCalls>>
    /\ UNCHANGED <<tieVars, walkVars>>

\* the auto-stop callback
FireEnd ==
  \E e \in timeline :
    /\ NextDue(e)
    /\ e.kind = "end"
    /\ StopBody
    /\ lastOp' = Op("stop", now - startTime, 0, e.pass <= cancelledUpTo, TRUE)
    /\ UNCHANGED <<nOps, runClean>>

\* every callback takes its note for a new onset
EveryNoteIsNew(noteTimeKey, last) == TRUE

\* noteTimeKey !== lastHighlightedTime
NewOnset(noteTimeKey, last) == noteTimeKey # last

\* a callback run by Tone.Draw: position, and once per distinct onset the
\* cursor advance and the highlight
RunDraw ==
  /\ drawQueue # <<>>
  /\ LET d == Head(drawQueue)
         last == lastHighlightedTime[d.pass]
     IN  /\ currentPosition' = d.measure
         /\ IF NewOnset(d.key, last)
            THEN /\ visCursor' \in IF last >= 0 THEN AdvanceCursorOutcomes(visCursor)
                                    ELSE {visCursor}
                 /\ highlighted' \in HighlightOutcomes
                 /\ lastHighlightedTime' = [lastHighlightedTime EXCEPT ![d.pass] = d.key]
                 /\ cursorCalls' =
                      [cursorCalls EXCEPT
                         ![d.pass].advanceCursor = @ + (IF last >= 0 THEN 1 ELSE 0),
                         ![d.pass].highlightNotesAtTime = Append(@, d.key),
                         ![d.pass].drawn = @ \cup {d.key},
                         ![d.pass].faults =
                            @ + (IF \/ ~highlighted'
                                    \/ last >= 0
                                         /\ visCursor' # AdvanceCursorPos(visCursor)
                                 THEN 1 ELSE 0)]
            ELSE /\ cursorCalls' = [cursorCalls EXCEPT ![d.pass].drawn = @ \cup {d.key}]
                 /\ UNCHANGED <<visCursor, highlighted, lastHighlightedTime>>
         /\ lastOp' = Op("draw", now - startTime, d.idx, d.pass <= cancelledUpTo, FALSE)
  /\ drawQueue' = Tail(drawQueue)
  /\ UNCHANGED <<isPlaying, isLoading, tempo, pianoRef, scheduledEvents, startTime,
                 pauseTime, notesRef, cursorPosition, calls>>
  /\ UNCHANGED <<transportState, transportPos, timeline, nextId, now, pass>>
  /\ UNCHANGED <<score, osmdFails, nOps, triggers, runClean, cancelledUpTo, groupPasses>>
  /\ UNCHANGED <<tieVars, walkVars>>

\* half a second passes; the callbacks due before it have run
Tick ==
  /\ now < MaxNow
  /\ drawQueue = <<>>
  /\ transportState = "started" => Due = {}
  /\ now' = now + 1
  /\ transportPos' = IF transportState = "started" THEN transportPos + 1
                     ELSE transportPos
  /\ lastOp' = Op("tick", now - startTime, 0, FALSE, FALSE)
  /\ UNCHANGED <<hookVars, displayVars, nOps, triggers, runClean, cancelledUpTo,
                 groupPasses>>
  /\ UNCHANGED <<transportState, timeline, nextId, drawQueue, pass,
                 lastHighlightedTime, cursorCalls>>
  /\ UNCHANGED <<tieVars, walkVars>>

\* the scheduler's variables after the hook is mounted
SchedMounted ==
  /\ isPlaying = FALSE
  /\ isLoading = FALSE
  /\ tempo = DEFAULT_TEMPO
  /\ currentPosition = 0
  /\ pianoRef = FALSE
  /\ scheduledEvents = <<>>
  /\ startTime = 0
  /\ pauseTime = 0
  /\ notesRef = <<>>
  /\ cursorPosition = 0
  /\ calls = <<>>
  /\ transportState = "stopped"
  /\ transportPos = 0
  /\ timeline = {}
  /\ nextId = 1
  /\ drawQueue = <<>>
  /\ now = 0
  /\ pass = 0
  /\ lastHighlightedTime = <<>>
  /\ cursorCalls = <<>>
  /\ visCursor = 1
  /\ highlighted = FALSE
  /\ lastOp = [op |-> "mount", from |-> "Stopped", called |-> "Stopped",
               elapsed |-> 0, arg |-> 0,
               stale |-> FALSE, auto |-> FALSE, outcome |-> "none"]
  /\ nOps = 0
  /\ triggers = <<>>
  /\ runClean = FALSE
  /\ cancelledUpTo = 0
  /\ groupPasses = 0

\* the scheduler while only the parser runs
SchedIdle == SchedMounted /\ score = <<>> /\ osmdFails = FALSE

\* the parser's variables while the scheduler runs
ParseIdle ==
  /\ pc = "done"
  /\ notes = <<>>
  /\ merged = <<>>
  /\ tieMap = <<>>
  /\ mergeIdx = 0
  /\ owner = <<>>
  /\ WalkIdle

InitSched ==
  /\ SchedMounted
  /\ score \in SchedScores
  /\ osmdFails = FALSE
  /\ ParseIdle

NextSched ==
  \/ PlayCall
  \/ PlayInit
  \/ PlayLoaded
  \/ PlayLoadFailed
  \/ PlayContinue
  \/ Pause
  \/ Stop
  \/ UpdateTempo
  \/ FireNote
  \/ FireEnd
  \/ RunDraw
  \/ Tick

SpecSched == InitSched /\ [][NextSched]_vars

\* ---- the tempo's two callers, the slider and the processed document, before
\* and during playback, at one instant of the clock

NextTempo ==
  \/ UpdateTempo
  \/ HandleProcessed
  \/ PlayCall
  \/ PlayInit
  \/ PlayLoaded
  \/ PlayContinue
  \/ FireNote
  \/ RunDraw

SpecTempo == InitSched /\ [][NextTempo]_vars

\* ---- one run to its end: no pause() and no stop() from outside; the clock
\* keeps running and the callbacks that are due are run

NextRun ==
  \/ PlayCall
  \/ PlayInit
  \/ PlayLoaded
  \/ PlayLoadFailed
  \/ PlayContinue
  \/ UpdateTempo
  \/ FireNote
  \/ FireEnd
  \/ RunDraw
  \/ Tick

SpecRunFair ==
  /\ InitSched
  /\ [][NextRun]_vars
  /\ WF_vars(Tick)
  /\ WF_vars(FireNote)
  /\ WF_vars(FireEnd)
  /\ WF_vars(RunDraw)

\* ---- playback of the displayed document, cursor and audio side by side

MaxSteps == 3        \* cursor steps of a displayed score

\* a tie stop continues a note
WellTied(sc) ==
  \A i \in DOMAIN sc : sc[i] = "tieStop" => i > 1 /\ sc[i - 1] # "rest"

CursorScores ==
  {sc \in UNION {[1..n -> StepKinds] : n \in 1..MaxSteps} : WellTied(sc)}

InitCursor ==
  /\ SchedMounted
  /\ score \in CursorScores
  /\ osmdFails = FALSE
  /\ ParseIdle

NextCursor ==
  \/ PlayDisplayed
  \/ PlayInit
  \/ PlayLoaded
  \/ PlayLoadFailed
  \/ PlayContinue
  \/ FireNote
  \/ FireEnd
  \/ RunDraw
  \/ Tick

SpecCursor == InitCursor /\ [][NextCursor]_vars

\* ---- SheetDisplay's cursor methods called on their own, on every score of
\* ---- up to MaxSteps steps, from every cursor position

\* advanceCursor's return value: false at the end, else !EndReached after the
\* walk
AdvanceCursorReturns(pos) ==
  pos <= Len(score) /\ AdvanceCursorPos(pos) <= Len(score)

\* history: the advanceCursor() calls made in a row since the last
\* resetCursor(), -1 when another method was called in between; kept in
\* lastOp.elapsed
CallsSinceReset ==
  IF lastOp.op \in {"resetCursor", "advanceCursor"} /\ lastOp.elapsed >= 0
  THEN Min(lastOp.elapsed + 1, Len(score) + 1)
  ELSE -1

AdvanceCursor ==
  /\ visCursor' \in AdvanceCursorOutcomes(visCursor)
  /\ lastOp' = [Op("advanceCursor", CallsSinceReset, 0, FALSE, FALSE)
                  EXCEPT !.arg = AdvanceCursorReturns(visCursor)]
  /\ UNCHANGED <<hookVars, toneVars, score, osmdFails, highlighted>>
  /\ UNCHANGED <<nOps, triggers, runClean, cancelledUpTo, groupPasses>>
  /\ UNCHANGED <<tieVars, walkVars>>

ResetCursor ==
  /\ visCursor' \in ResetCursorOutcomes(visCursor)
  /\ lastOp' = Op("resetCursor", 0, 0, FALSE, FALSE)
  /\ UNCHANGED <<hookVars, toneVars, score, osmdFails, highlighted>>
  /\ UNCHANGED <<nOps, triggers, runClean, cancelledUpTo, groupPasses>>
  /\ UNCHANGED <<tieVars, walkVars>>

\* buildCursorTimeMap's loop from step pos on: an entry for each step that
\* cursorHasNotes, cursorIndex counting every step from 0, the timestamp
\* rounded to thousandths of a quarter
RECURSIVE TimeMapFrom(_)
TimeMapFrom(pos) ==
  IF pos > Len(score) THEN <<>>
  ELSE (IF cursorHasNotes(score[pos])
        THEN <<[cursorIndex |-> pos - 1,
                timeInQuarters |-> NoteTimeKey([time |-> StepTime(pos)])]>>
        ELSE <<>>) \o TimeMapFrom(pos + 1)

\* buildCursorTimeMap: cursor.reset(), the loop, cursor.reset(); the map it
\* returns is kept in lastOp.arg
BuildCursorTimeMap ==
  /\ visCursor' = 1
  /\ lastOp' = [Op("buildCursorTimeMap", -1, 0, FALSE, FALSE)
                  EXCEPT !.arg = TimeMapFrom(1)]
  /\ UNCHANGED <<hookVars, toneVars, score, osmdFails, highlighted>>
  /\ UNCHANGED <<nOps, triggers, runClean, cancelledUpTo, groupPasses>>
  /\ UNCHANGED <<tieVars, walkVars>>

\* cursor.next() as often as the index says
MoveCursorPosTwice(targetIndex) == Min(1 + 2 * targetIndex, Len(score) + 1)

\* moveCursorToPosition: cursor.reset(), then cursor.next() while
\* i < targetIndex and the end is not reached
MoveCursorPos(targetIndex) == Min(1 + targetIndex, Len(score) + 1)

\* its return value: !cursor.Iterator?.EndReached
MoveCursorReturns(targetIndex) == MoveCursorPos(targetIndex) <= Len(score)

MoveCursorToPosition ==
  /\ \E targetIndex \in 0..(Len(score) + 1) :
       /\ visCursor' = MoveCursorPos(targetIndex)
       /\ lastOp' = [Op("moveCursorToPosition", -1, 0, FALSE, FALSE)
                       EXCEPT !.arg = MoveCursorReturns(targetIndex)]
  /\ UNCHANGED <<hookVars, toneVars, score, osmdFails, highlighted>>
  /\ UNCHANGED <<nOps, triggers, runClean, cancelledUpTo, groupPasses>>
  /\ UNCHANGED <<tieVars, walkVars>>

NextDisplay ==
  \/ AdvanceCursor
  \/ ResetCursor
  \/ BuildCursorTimeMap
  \/ MoveCursorToPosition

SpecDisplay == InitCursor /\ [][NextDisplay]_vars

\* ---- SheetDisplay's cursor methods, one cursor.next() at a time: lastOp is
\* ---- the call's frame (arg: the loop variables, outcome: "running" until
\* ---- the method returns)

CursorMethods ==
  {"advanceCursor", "resetCursor", "buildCursorTimeMap", "moveCursorToPosition"}

\* the frame of a call: the loop variable and the argument of
\* moveCursorToPosition, the map buildCursorTimeMap has built so far, and the
\* value returned
Frame(targetIndex) ==
  [i |-> 0, targetIndex |-> targetIndex, timeMap |-> <<>>, returns |-> FALSE]

\* the same loops without their EndReached test
LoopIgnoresEnd(method, pos, frame) ==
  IF method = "moveCursorToPosition" THEN frame.i < frame.targetIndex
  ELSE IF method = "buildCursorTimeMap" THEN TRUE
  ELSE ~(pos <= Len(score) /\ cursorHasNotes(score[pos]))

\* the loop conditions: while (!EndReached && !cursorHasNotes()),
\* for (i = 0; i < targetIndex && !EndReached; i++), while (!EndReached)
LoopCondition(method, pos, frame) ==
  IF method = "moveCursorToPosition"
  THEN frame.i < frame.targetIndex /\ pos <= Len(score)
  ELSE IF method = "buildCursorTimeMap" THEN pos <= Len(score)
  ELSE pos <= Len(score) /\ ~cursorHasNotes(score[pos])

\* cursor.next(): one step on, and no further than the end
CursorNext(pos) == Min(pos + 1, Len(score) + 1)

\* a method is called and runs up to its loop: advanceCursor returns false at
\* the end and calls cursor.next() otherwise, the others call cursor.reset()
CallCursorMethod ==
  /\ lastOp.outcome # "running"
  /\ \E method \in CursorMethods :
       \E targetIndex \in 0..(Len(score) + 1) :
         /\ method # "moveCursorToPosition" => targetIndex = 0
         /\ visCursor' = IF method # "advanceCursor" THEN 1
                          ELSE CursorNext(visCursor)
         /\ lastOp' =
              [Op(method, 0, 0, FALSE, FALSE) EXCEPT
                 !.arg = Frame(targetIndex),
                 !.outcome = IF method = "advanceCursor"
                                  /\ visCursor > Len(score)
                             THEN "returned" ELSE "running"]
  /\ UNCHANGED <<hookVars, toneVars, score, osmdFails, highlighted>>
  /\ UNCHANGED <<nOps, triggers, runClean, cancelledUpTo, groupPasses>>
  /\ UNCHANGED <<tieVars, walkVars>>

\* one pass through the body of the running method's loop
LoopStep ==
  /\ lastOp.outcome = "running"
  /\ LoopCondition(lastOp.op, visCursor, lastOp.arg)
  /\ visCursor' = CursorNext(visCursor)
  /\ lastOp' =
       [lastOp EXCEPT
          !.arg.i = IF lastOp.op = "moveCursorToPosition" THEN @ + 1 ELSE @,
          !.arg.timeMap =
             IF /\ lastOp.op = "buildCursorTimeMap"
                /\ visCursor <= Len(score)
                /\ cursorHasNotes(score[visCursor])
             THEN Append(@, [cursorIndex |-> visCursor - 1,
                             timeInQuarters |->
                               NoteTimeKey([time |-> StepTime(visCursor)])])
             ELSE @]
  /\ UNCHANGED <<hookVars, toneVars, score, osmdFails, highlighted>>
  /\ UNCHANGED <<nOps, triggers, runClean, cancelledUpTo, groupPasses>>
  /\ UNCHANGED <<tieVars, walkVars>>

\* the loop is left and the method returns: !EndReached, or the time map
\* after a last cursor.reset()
LoopReturn ==
  /\ lastOp.outcome = "running"
  /\ ~LoopCondition(lastOp.op, visCursor, lastOp.arg)
  /\ visCursor' = IF lastOp.op = "buildCursorTimeMap" THEN 1 ELSE visCursor
  /\ lastOp' = [lastOp EXCEPT !.outcome = "returned",
                              !.arg.returns = visCursor <= Len(score)]
  /\ UNCHANGED <<hookVars, toneVars, score, osmdFails, highlighted>>
  /\ UNCHANGED <<nOps, triggers, runClean, cancelledUpTo, groupPasses>>
  /\ UNCHANGED <<tieVars, walkVars>>

NextLoops ==
  \/ CallCursorMethod
  \/ LoopStep
  \/ LoopReturn

\* a method that was called runs on: JavaScript runs it to completion
SpecLoopsFair ==
  /\ InitCursor
  /\ [][NextLoops]_vars
  /\ WF_vars(LoopStep)
  /\ WF_vars(LoopReturn)

\* ---- playback of a document with chords: two notes at onset 0, one at
\* ---- onset 1, two at onset 2

ChordDocs ==
  {<<MergedNote(0, 1), MergedNote(0, 1), MergedNote(1, 1), MergedNote(2, 1),
     MergedNote(2, 1)>>}

PlayChords == PlayCallOf(ChordDocs)

NextChords ==
  \/ PlayChords
  \/ PlayInit
  \/ PlayLoaded
  \/ PlayLoadFailed
  \/ PlayContinue
  \/ Pause
  \/ Stop
  \/ UpdateTempo
  \/ FireNote
  \/ FireEnd
  \/ RunDraw
  \/ Tick

SpecChords == InitSched /\ [][NextChords]_vars

\* ---- playback of a document whose first note outlasts its last one: a
\* ---- whole note at onset 0 (or a tie chain merged into one) and a quarter
\* ---- note at onset 1

LongDocs == {<<MergedNote(0, 4), MergedNote(1, 1)>>}

PlayLong == PlayCallOf(LongDocs)

NextLong ==
  \/ PlayLong
  \/ PlayInit
  \/ PlayLoaded
  \/ PlayLoadFailed
  \/ PlayContinue
  \/ Pause
  \/ Stop
  \/ UpdateTempo
  \/ FireNote
  \/ FireEnd
  \/ RunDraw
  \/ Tick

SpecLong == InitSched /\ [][NextLong]_vars

\* ---- playback on a display whose OSMD calls may throw: a score of a
\* ---- note, a rest and two notes, and the document of its three notes

FaultyScores == {<<"note", "rest", "note", "note">>}

InitFaulty ==
  /\ SchedMounted
  /\ score \in FaultyScores
  /\ osmdFails = TRUE
  /\ ParseIdle

NextFaulty ==
  \/ PlayCall
  \/ PlayInit
  \/ PlayLoaded
  \/ PlayLoadFailed
  \/ PlayContinue
  \/ Pause
  \/ FireNote
  \/ FireEnd
  \/ RunDraw
  \/ Tick

SpecFaulty == InitFaulty /\ [][NextFaulty]_vars

\* ---- the tie merge on its own: raw events are supplied one at a time, in
\* ---- time order, as the loop reaches them

TiePitches == {"C4", "D4"}
TieVoices == {1, 2}
TieDurations == {TicksPerQuarter, 2 * TicksPerQuarter}

\* The raw events of the stand-alone merge: one key with every flag and both
\* durations, the keys that differ from it in voice, pitch, staff or part, and
\* a grace event of the same pitch.
RawEvents(t) ==
  {[pitch |-> p, time |-> t, duration |-> d, velocity |-> DefaultVelocity,
    measureIndex |-> 0, tieStart |-> ts, tieStop |-> tp, partIndex |-> pi,
    staff |-> st, voice |-> v, isGrace |-> FALSE] :
     p \in TiePitches, v \in TieVoices, d \in TieDurations,
     ts \in BOOLEAN, tp \in BOOLEAN, st \in {1, 2}, pi \in {0, 1}}
  \cup
  {[pitch |-> "C4", time |-> t, duration |-> GraceDuration,
    velocity |-> GraceVelocity, measureIndex |-> 0, tieStart |-> FALSE,
    tieStop |-> FALSE, partIndex |-> 0, staff |-> 1, voice |-> NoVoice,
    isGrace |-> TRUE]}

LastTime == IF notes = <<>> THEN 0 ELSE notes[Len(notes)].time

\* The loop reaches the next raw event of a time-sorted list and merges it.
FeedRaw ==
  /\ pc = "merge"
  /\ mergeIdx = Len(notes)
  /\ Len(notes) < MaxRaw
  /\ \E dt \in {0, TicksPerQuarter} :
       \E ev \in RawEvents(LastTime + dt) :
         /\ (~ev.isGrace /\ Key(ev) # "C4-1-0-1")
              => ev.duration = TicksPerQuarter
         /\ Cardinality({f \in 1..4 : <<ev.pitch = "D4", ev.voice = 2,
                                         ev.staff = 2, ev.partIndex = 1>>[f]})
              <= 1
         /\ notes' = Append(notes, ev)
         /\ MergeOn(ev)
  /\ mergeIdx' = mergeIdx + 1
  /\ pc' = pc
  /\ UNCHANGED walkVars
  /\ UNCHANGED schedVars

InitTie ==
  /\ pc = "merge"
  /\ notes = <<>>
  /\ merged = <<>>
  /\ tieMap = <<>>
  /\ mergeIdx = 0
  /\ owner = <<>>
  /\ WalkIdle
  /\ SchedIdle

NextTie == FeedRaw

SpecTie == InitTie /\ [][NextTie]_vars

\* ---- the whole of parseNotesFromMusicXML: the walk, element by element as the
\* ---- loops reach them, then the sort and the merge

BackupEl(raw) == [tag |-> "backup", duration |-> raw]
ForwardEl(raw) == [tag |-> "forward", duration |-> raw]

\* a pitched C4 <note> with a <type>, no dots, no <duration>
NoteEl(type, voice, chord, rest, grace, tied, actual) ==
  [tag |-> "note", cue |-> FALSE, grace |-> grace, chord |-> chord,
   rest |-> rest, hasPitch |-> ~rest, step |-> "C", alter |-> 0,
   octave |-> "4", type |-> type, dots |-> 0, timeMod |-> actual # 0,
   actual |-> actual, normal |-> IF actual = 3 THEN 2 ELSE IF actual = 0 THEN 0 ELSE 1,
   duration |-> 0, staff |-> 1, voice |-> voice, tie |-> {}, tied |-> tied,
   dynamics |-> "none"]

WalkTypes == {"quarter", "half"}
WalkVoices == {1, 2}

\* The child elements the walk is fed: notes and chord members of two lengths
\* in two voices, a tie start and a tie stop, rests, a grace note, backups, a
\* forward, and a note whose <actual-notes> is negative.
ParseElements ==
  {BackupEl(1), BackupEl(2), ForwardEl(1)}
  \cup {NoteEl(t, v, c, FALSE, FALSE, {}, 0) :
          t \in WalkTypes, v \in WalkVoices, c \in BOOLEAN}
  \cup {NoteEl("quarter", 1, FALSE, FALSE, FALSE, {f}, 0) : f \in {"start", "stop"}}
  \cup {NoteEl("quarter", v, FALSE, TRUE, FALSE, {}, 0) : v \in WalkVoices}
  \cup {NoteEl("quarter", 1, FALSE, FALSE, TRUE, {}, 0)}
  \cup {NoteEl("quarter", 1, FALSE, FALSE, FALSE, {}, -1)}

\* for (let i = 0; i < children.length; i++): the next child element
ProcessElementOf(els) ==
  \E el \in els :
    \/ ProcessBackup(el)
    \/ ProcessForward(el)
    \/ ProcessGrace(el)
    \/ ProcessNote(el)

ProcessElement == ProcessElementOf(ParseElements)

InitParse ==
  /\ pc = "walk"
  /\ notes = <<>>
  /\ merged = <<>>
  /\ tieMap = <<>>
  /\ mergeIdx = 0
  /\ owner = <<>>
  /\ WalkIdle
  /\ SchedIdle

NextParse ==
  \/ ProcessElement
  \/ NextMeasure
  \/ NextPart
  \/ SortNotes
  \/ MergeStep
  \/ MergeReturn

SpecParse == InitParse /\ [][NextParse]_vars

\* ---- parseNotesFromMusicXML over documents with time signatures: a first
\* ---- <time> of 4/4, 1/4 or none, and measures that change it

\* the document's first <time>, as <<beats, beat-type>>; <<0, 0>> is none
GlobalTimes == {<<0, 0>>, <<1, 4>>}

\* the <time> a measure may carry
TimeChanges ==
  {NoTime, [beats |-> 3, beatType |-> 8], [beats |-> 0, beatType |-> 2]}

\* a whole note, a quarter note, a chord member, a rest, a grace note, a
\* backup and a forward
MeasureElements ==
  {NoteEl("whole", 1, FALSE, FALSE, FALSE, {}, 0),
   NoteEl("quarter", 1, FALSE, FALSE, FALSE, {}, 0),
   NoteEl("half", 1, TRUE, FALSE, FALSE, {}, 0),
   NoteEl("quarter", 1, FALSE, TRUE, FALSE, {}, 0),
   NoteEl("quarter", 1, FALSE, FALSE, TRUE, {}, 0),
   BackupEl(1), ForwardEl(1)}

ProcessMeasureElement == ProcessElementOf(MeasureElements)

NextTimedMeasure == NextMeasureOf(TimeChanges)

NextTimedPart == NextPartOf(TimeChanges)

InitMeasure ==
  /\ pc = "walk"
  /\ notes = <<>>
  /\ merged = <<>>
  /\ tieMap = <<>>
  /\ mergeIdx = 0
  /\ owner = <<>>
  /\ \E t \in GlobalTimes : WalkStart(t[1], t[2])
  /\ SchedIdle

NextMeasureWalk ==
  \/ ProcessMeasureElement
  \/ NextTimedMeasure
  \/ NextTimedPart
  \/ SortNotes
  \/ MergeStep
  \/ MergeReturn

SpecMeasure == InitMeasure /\ [][NextMeasureWalk]_vars

\* ---- parseNotesFromMusicXML over documents with raw tick counts: a first
\* ---- measure that declares <divisions> or not, and notes with a <type> and a
\* ---- <duration> from which the divisions are inferred

\* the <divisions> of the first measure's <attributes>; 0 is none
DeclaredDivisions == {0, 1, 2}

\* a quarter note in voice 1 with the given <type> and <duration>
RawNote(type, raw, rest) ==
  [NoteEl(type, 1, FALSE, rest, FALSE, {}, 0) EXCEPT !.duration = raw]

\* quarter notes of 1 and of 2 raw ticks, a note and a rest without <type>, a
\* backup and a forward, each of 2 raw ticks; a doubly dotted quarter, a
\* triplet quarter, a triplet note of 2 raw ticks without <type>, a note with
\* neither <type> nor <duration>, and a quarter whose <actual-notes> is -1
DivisionElements ==
  {RawNote("quarter", 1, FALSE), RawNote("quarter", 2, FALSE),
   RawNote("", 2, FALSE), RawNote("", 2, TRUE), BackupEl(2), ForwardEl(2),
   [RawNote("quarter", 0, FALSE) EXCEPT !.dots = 2],
   NoteEl("quarter", 1, FALSE, FALSE, FALSE, {}, 3),
   [NoteEl("", 1, FALSE, FALSE, FALSE, {}, 3) EXCEPT !.duration = 2],
   RawNote("", 0, FALSE),
   NoteEl("quarter", 1, FALSE, FALSE, FALSE, {}, -1)}

\* the elements walked so far
Walked == [k \in DOMAIN hist |-> hist[k].el]

\* the next child element, of a document in which the inference loop found
\* globalDivisions: the first note the loop stops at yields that value
ProcessDivisionElement ==
  ProcessElementOf({el \in DivisionElements :
                      InferFrom(Append(Walked, el)) \in {0, globalDivisions}})

InitDivisions ==
  /\ pc = "walk"
  /\ notes = <<>>
  /\ merged = <<>>
  /\ tieMap = <<>>
  /\ mergeIdx = 0
  /\ owner = <<>>
  /\ \E declared \in DeclaredDivisions :
       \E allNotes \in {<<>>} \cup {<<el>> : el \in DivisionElements} :
         WalkStartWith(4, 4, GlobalDivisionsOf(declared, allNotes), declared)
  /\ SchedIdle

NextDivisions ==
  \/ ProcessDivisionElement
  \/ NextMeasure
  \/ NextPart
  \/ SortNotes
  \/ MergeStep
  \/ MergeReturn

SpecDivisions == InitDivisions /\ [][NextDivisions]_vars

\* ------------------------------------------------------------------ C1

RECURSIVE SumDur(_)
SumDur(S) ==
  IF S = {} THEN 0
  ELSE LET k == CHOOSE k \in S : TRUE IN notes[k].duration + SumDur(S \ {k})

\* the consumed non-grace events between a and b that carry a's key
SameKey(a, b) ==
  {k \in a..b : ~notes[k].isGrace /\ Key(notes[k]) = Key(notes[a])}

\* a..b holds a tie chain: the first segment only starts a tie, the last only
\* stops one, every same-key event between them does both
IsChain(a, b) ==
  /\ a < b /\ b <= mergeIdx
  /\ ~notes[a].isGrace /\ ~notes[b].isGrace
  /\ Key(notes[a]) = Key(notes[b])
  /\ notes[a].tieStart /\ ~notes[a].tieStop
  /\ notes[b].tieStop /\ ~notes[b].tieStart
  /\ \A k \in SameKey(a, b) \ {a, b} : notes[k].tieStart /\ notes[k].tieStop

\* C1: a tie chain of N >= 2 same-key segments comes out as exactly one
\* event, at the first segment's time, lasting the sum of the segments'
\* durations, however many events of other keys lie between the segments.
C1_TieRoundTrip ==
  \A a \in 1..mergeIdx : \A b \in 1..mergeIdx :
    IsChain(a, b) =>
      LET r == owner[a]
          S == SameKey(a, b)
      IN  /\ {k \in 1..mergeIdx : owner[k] = r} = S
          /\ merged[r].pitch = notes[a].pitch
          /\ merged[r].time = notes[a].time
          /\ merged[r].duration = SumDur(S)

\* a chain of two segments with an event of another key between them
C1_Witness ==
  \E a \in 1..mergeIdx : \E b \in 1..mergeIdx :
    /\ IsChain(a, b) /\ b = a + 2
    /\ SameKey(a, b) = {a, b}
    /\ notes[a].duration # notes[b].duration
    /\ notes[a].time < notes[b].time

\* ------------------------------------------------------------------ C2

\* C2: the list parseNotesFromMusicXML returns is ordered by non-decreasing
\* time, and every event has time >= 0 and duration > 0.
C2_OutputOrderedAndPositive ==
  pc = "done" =>
    \A i \in 1..Len(merged) :
      /\ merged[i].time >= 0
      /\ merged[i].duration > 0
      /\ i < Len(merged) => merged[i].time <= merged[i + 1].time

\* ------------------------------------------------------------------ C3

\* walked entries of <note> elements that are neither cue nor grace
IsVoiced(e) == e.el.tag = "note" /\ ~e.el.cue /\ ~e.el.grace

ElDur(e) == getDurationInQuarters(e.el, divisions)

RECURSIVE MinDurOver(_)
MinDurOver(S) ==
  LET k == CHOOSE k \in S : TRUE
  IN  IF S = {k} THEN ElDur(hist[k]) ELSE Min(ElDur(hist[k]), MinDurOver(S \ {k}))

\* hist[k] opens a chord whose further members are hist[k+1..m], all pitched
\* notes of one voice with positive durations, not all equal
IsChordRun(k, m) ==
  /\ k < m /\ m <= Len(hist)
  /\ \A j \in k..m :
       /\ IsVoiced(hist[j]) /\ ~hist[j].el.rest /\ hist[j].emitted
       /\ VoiceKey(hist[j].el) = VoiceKey(hist[k].el)
       /\ ElDur(hist[j]) > 0
       /\ hist[j].el.chord <=> j > k
  /\ \E j \in k..m : ElDur(hist[j]) # ElDur(hist[k])
  /\ k > 1 => ~(IsVoiced(hist[k - 1]) /\ hist[k - 1].el.rest)

\* where the voice's next note or rest starts, within the measure
StartOf(e) == IF e.el.rest THEN e.cursorAfter - ElDur(e) ELSE e.onset

\* hist[n] is the note or rest of the same voice that directly follows the chord
FollowsChord(k, m, n) ==
  /\ n = m + 1 /\ n <= Len(hist)
  /\ IsVoiced(hist[n]) /\ ~hist[n].el.chord
  /\ VoiceKey(hist[n].el) = VoiceKey(hist[k].el)
  /\ ElDur(hist[n]) > 0
  /\ hist[n].el.rest \/ hist[n].emitted

\* C3: after a chord with members of unequal duration, the next note or rest
\* of that voice starts at the chord's onset plus the minimum member duration.
C3_ChordMinimumLaw ==
  \A k \in 1..Len(hist) : \A m \in 1..Len(hist) :
    (IsChordRun(k, m) /\ FollowsChord(k, m, m + 1)) =>
      StartOf(hist[m + 1]) = hist[k].onset + MinDurOver(k..m)

\* the same law for a following note only
C3_NoteAfterChord ==
  \A k \in 1..Len(hist) : \A m \in 1..Len(hist) :
    (IsChordRun(k, m) /\ FollowsChord(k, m, m + 1) /\ ~hist[m + 1].el.rest) =>
      hist[m + 1].onset = hist[k].onset + MinDurOver(k..m)

\* ------------------------------------------------------------------ C4

\* no note or rest of e's voice was walked earlier in e's measure
VoiceUnseen(k) ==
  \A j \in 1..(k - 1) :
    (IsVoiced(hist[j]) /\ hist[j].part = hist[k].part
       /\ hist[j].measure = hist[k].measure)
    => VoiceKey(hist[j].el) # VoiceKey(hist[k].el)

\* hist[k] is the first note of a voice new to the measure, directly after a
\* backup that directly follows a note or rest (not a chord member) of a voice
AfterBackupIntoNewVoice(k) ==
  /\ k >= 3 /\ k <= Len(hist)
  /\ IsVoiced(hist[k]) /\ ~hist[k].el.rest /\ ~hist[k].el.chord /\ hist[k].emitted
  /\ hist[k - 1].el.tag = "backup"
  /\ IsVoiced(hist[k - 2]) /\ ~hist[k - 2].el.chord
  /\ hist[k - 2].part = hist[k].part /\ hist[k - 2].measure = hist[k].measure
  /\ VoiceUnseen(k)

\* C4: after a voice has advanced the cursor to c and a backup of d follows,
\* the first note of a voice not yet seen in the measure starts at
\* max(0, c - d) within the measure.
C4_NewVoiceAfterBackup ==
  \A k \in 1..Len(hist) :
    AfterBackupIntoNewVoice(k) =>
      hist[k].onset =
        Max(0, hist[k - 2].cursorAfter - RawQuarters(hist[k - 1].el, divisions))

\* voice 1: quarter, quarter; backup 2; voice 2: half, which starts at 0
C4_Witness ==
  /\ Len(hist) = 4
  /\ hist[1].el = NoteEl("quarter", 1, FALSE, FALSE, FALSE, {}, 0)
  /\ hist[2].el = NoteEl("quarter", 1, FALSE, FALSE, FALSE, {}, 0)
  /\ hist[3].el = BackupEl(2)
  /\ hist[4].el = NoteEl("half", 2, FALSE, FALSE, FALSE, {}, 0)
  /\ AfterBackupIntoNewVoice(4)
  /\ hist[1].onset = 0 /\ hist[4].onset = 0
  /\ pc = "done" /\ Len(merged) = 3

\* ----------------------------------------------------------- C5 (SpecSched)

\* the note events the transport holds: which note, when, for how long
NoteSchedule ==
  {[idx |-> e.idx, time |-> e.time, dur |-> e.dur] :
     e \in {f \in timeline : f.kind = "note"}}

\* the schedule of the cached notes from elapsed time E at tempo T
ExpectedSchedule(E, T) ==
  {[idx |-> i, time |-> InSeconds(notesRef[i].time, T) - E,
    dur |-> InSeconds(notesRef[i].duration, T)] :
     i \in Scheduled(notesRef, E, T)}

\* C5: right after setTempo(newTempo) called while Playing at elapsed time E,
\* the transport holds exactly the cached notes with onset*(60/newTempo) >= E,
\* each at onset*(60/newTempo) - E and lasting duration*(60/newTempo).
C5_RescheduledAtNewTempo ==
  lastOp.op = "setTempo" /\ lastOp.from = "Playing" /\ notesRef # <<>>
    => NoteSchedule = ExpectedSchedule(lastOp.elapsed, lastOp.arg)

\* ----------------------------------------------------------- C6 (SpecSched)

\* C6: when a run that began from Stopped by a single play() and saw no pause
\* or stop reaches its auto-stop, every note's audio trigger has fired exactly
\* once, whatever tempo changes happened on the way.
C6_EachNoteOnce ==
  lastOp.op = "stop" /\ lastOp.auto /\ runClean
    => \A i \in DOMAIN triggers : triggers[i] = 1

\* ----------------------------------------------------------- C7 (SpecSched)

\* C7: right after a setTempo called while Playing, now - startTime is what it
\* was right before the call.
C7_ElapsedPreserved ==
  lastOp.op = "setTempo" /\ lastOp.from = "Playing"
    => now - startTime = lastOp.elapsed

\* a second tempo change of one run, made after time has passed, has
\* rescheduled the notes
C7_Witness ==
  /\ lastOp.op = "setTempo"
  /\ lastOp.from = "Playing"
  /\ lastOp.elapsed > 0
  /\ pass >= 3
  /\ transportPos = 0
  /\ timeline # {}

\* ----------------------------------------------------------- C8 (SpecSched)

\* C8: right after stop(), from Playing, Paused or Stopped, no event is
\* scheduled, the transport is stopped, pauseTime, the cursor index and
\* currentPosition are 0, the highlights are cleared and isPlaying is false.
C8_StopResets ==
  lastOp.op = "stop"
    => /\ scheduledEvents = <<>>
       /\ timeline = {}
       /\ transportState = "stopped"
       /\ pauseTime = 0
       /\ cursorPosition = 0
       /\ currentPosition = 0
       /\ ~highlighted
       /\ ~isPlaying

\* stop() called on a paused run that had shown a highlight; nothing has
\* scheduled since, so the event ids issued were the run's
C8_Witness ==
  /\ lastOp.op = "stop"
  /\ ~lastOp.auto
  /\ lastOp.from = "Paused"
  /\ lastOp.elapsed > 0
  /\ nextId > 1
  /\ \E p \in DOMAIN lastHighlightedTime : lastHighlightedTime[p] >= 0

\* ----------------------------------------------------------- C9 (SpecSched)

\* C9: no callback of a schedule that stop() or setTempo() has cancelled runs
\* afterwards: no audio trigger, no draw-phase update, no auto-stop.
C9_NoStaleCallback == ~lastOp.stale

\* ---------------------------------------------------------- C10 (SpecSched)

\* C10: the play() calls made while an earlier play() is still awaiting its
\* initialisation run one scheduling pass and start the transport once
\* between them.
C10_SecondPlayIgnored == groupPasses <= 1

\* ---------------------------------------------------------- C11 (SpecCursor)

\* Math.round(timestamp * 1000) of a cursor step
StepKey(pos) == NoteTimeKey([time |-> StepTime(pos)])

\* the onset the draw callback that just ran was created for
DrawnOnset == lastHighlightedTime[pass]

\* a draw callback has just run in a playback started from Stopped by one
\* play() and not paused or stopped since
DrawInCleanRun == lastOp.op = "draw" /\ ~lastOp.stale /\ runClean

\* C11: whenever the visual-advance callback of an onset t has run during
\* uninterrupted playback from the start, the visual cursor stands on a
\* note-bearing step and that step's timestamp is t.
C11_CursorOnSoundingStep ==
  DrawInCleanRun
    => /\ visCursor \in DOMAIN score
       /\ cursorHasNotes(score[visCursor])
       /\ StepKey(visCursor) = DrawnOnset

\* the same for the scores of plain notes and rests only
C11_PlainScores ==
  DrawInCleanRun /\ Range(score) \subseteq {"note", "rest"}
    => /\ visCursor \in DOMAIN score
       /\ cursorHasNotes(score[visCursor])
       /\ StepKey(visCursor) = DrawnOnset

\* ---------------------------------------------------------- C12 (SpecSched)

\* note i of the cached list has an event the transport has not passed yet
StillAhead(i) ==
  \E e \in timeline :
    e.kind = "note" /\ e.idx = i /\ ~e.fired /\ e.time >= transportPos

\* play() called in state st has just scheduled and started the transport,
\* the scheduler still being in that state
PlayStartedFrom(st) ==
  lastOp.op = "playStarted" /\ lastOp.called = st /\ lastOp.from = st

\* C12: when play() called while Paused has started the transport, every
\* cached note is scheduled from quarter-note zero and lies ahead of the
\* transport, so that the whole piece sounds again.
C12_ReplayFromPaused ==
  PlayStartedFrom("Paused") => \A i \in DOMAIN notesRef : StillAhead(i)

\* the same after play() called while Stopped
C12_ReplayFromStopped ==
  PlayStartedFrom("Stopped") => \A i \in DOMAIN notesRef : StillAhead(i)

\* -------------------------------------------------------- C13 (SpecRunFair)

\* the scheduler is Stopped: not playing, nothing scheduled
Completed == ~isPlaying /\ scheduledEvents = <<>> /\ timeline = {}

\* the clock's horizon came before an auto-stop that is still ahead
EndBeyondHorizon ==
  /\ now = MaxNow
  /\ \E e \in timeline : e.kind = "end" /\ ~e.fired /\ e.time > transportPos

\* C13: a run started from Stopped by one play(), with no pause() and no
\* stop() issued, reaches Stopped through its auto-stop whatever tempo changes
\* are made on the way (unless a second play() overlaps it or the clock's
\* horizon comes first).
C13_RunCompletes ==
  (isPlaying /\ runClean) ~> (Completed \/ ~runClean \/ EndBeyondHorizon)

\* ---------------------------------------------------------- C14 (SpecTempo)

\* C14: after any setTempo(bpm), from the slider or from a processed
\* document, the stored tempo lies in [MIN_TEMPO, MAX_TEMPO].
C14_TempoInRange ==
  lastOp.op = "setTempo" => MIN_TEMPO <= tempo /\ tempo <= MAX_TEMPO

\* the same for the slider's calls, whose values the input element bounds
C14_SliderInRange ==
  lastOp.op = "setTempo" /\ lastOp.arg \in Tempos
    => MIN_TEMPO <= tempo /\ tempo <= MAX_TEMPO

\* ---------------------------------------------------------- C15 (SpecSched)

\* C15: a play() called while Playing changes nothing: the scheduled events,
\* the cached notes, the start time, the visual cursor and isPlaying stay as
\* they are, and no call is left pending.
C15_PlayWhilePlayingNoOp ==
  [][lastOp'.op = "play" /\ isPlaying
       => UNCHANGED <<timeline, scheduledEvents, notesRef, startTime, visCursor,
                      cursorPosition, isPlaying, transportState, calls>>]_vars

\* play() was called while notes were scheduled and sounding
C15_Witness ==
  /\ lastOp.op = "play"
  /\ lastOp.from = "Playing"
  /\ isPlaying
  /\ \E e \in timeline : e.kind = "note" /\ ~e.fired
  /\ \E i \in DOMAIN triggers : triggers[i] > 0

\* ---------------------------------------------------------- C16 (SpecSched)

\* C16: pause() while Playing pauses the transport where it is, records the
\* elapsed time, clears the highlights and sets isPlaying false, and leaves
\* the scheduled events as they are; pause() while not playing changes nothing.
C16_PauseEffect ==
  [][lastOp'.op = "pause"
       => IF isPlaying
          THEN /\ transportState' = "paused"
               /\ transportPos' = transportPos
               /\ pauseTime' = now - startTime
               /\ ~highlighted'
               /\ ~isPlaying'
               /\ UNCHANGED <<timeline, scheduledEvents>>
          ELSE UNCHANGED <<hookVars, toneVars, displayVars>>]_vars

\* pause() was called on a run that had played for a while and still had
\* notes to play
C16_Witness ==
  /\ lastOp.op = "pause"
  /\ lastOp.from = "Playing"
  /\ transportState = "paused"
  /\ pauseTime > 0
  /\ \E e \in timeline : e.kind = "note" /\ ~e.fired

\* ---------------------------------------------------------- C17 (SpecSched)

\* setTempo while not playing stores the tempo and nothing else
StoresOnly ==
  /\ tempo' = lastOp'.arg
  /\ UNCHANGED <<timeline, scheduledEvents, transportState, transportPos,
                 startTime, pauseTime, isPlaying, notesRef, nextId, pass,
                 visCursor, calls>>

\* play() has scheduled every note at onset * 60 / the stored tempo
PlayScheduledAtStored ==
  lastOp.op = "playStarted" => NoteSchedule = ExpectedSchedule(0, tempo)

C17_SetTempoFrame ==
  [][lastOp'.op = "setTempo" /\ ~isPlaying => StoresOnly]_vars

\* play() schedules at the tempo that was stored when it was called
C17_ScheduledAtCallTempo ==
  lastOp.op = "playStarted" => NoteSchedule = ExpectedSchedule(0, lastOp.arg)

\* ---------------------------------------------------------- C18 (SpecParse)

\* the i-th element walked is a pitched grace note
IsGraceAt(i) == hist[i].el.tag = "note" /\ hist[i].el.grace /\ hist[i].emitted

\* the i-th element walked is a sounding note that is not a grace note
IsMainAt(i) ==
  /\ hist[i].el.tag = "note"
  /\ ~hist[i].el.grace
  /\ ~hist[i].el.rest
  /\ hist[i].emitted

\* a grace note right before a main note of onset T is at max(0, T - 0.125)
GraceTimeLaw ==
  \A i \in 1..(Len(hist) - 1) :
    IsGraceAt(i) /\ IsMainAt(i + 1)
      => hist[i].mstart + hist[i].onset
           = Max(0, hist[i + 1].mstart + hist[i + 1].onset - GraceDuration)

\* a grace event lasts 0.125 at velocity 0.6
GraceEventShape ==
  \A k \in DOMAIN notes :
    notes[k].isGrace
      => notes[k].duration = GraceDuration /\ notes[k].velocity = GraceVelocity

\* the step walks a grace note
GraceStep ==
  /\ Len(hist') = Len(hist) + 1
  /\ hist'[Len(hist')].el.tag = "note"
  /\ hist'[Len(hist')].el.grace

\* C18: a pitched grace note right before a main note of absolute onset T is
\* an event of its own at max(0, T - 0.125), lasting 0.125 at velocity 0.6,
\* and walking it leaves the cursor, the high-water mark, the saved voice
\* cursors and the open-chord tracking as they were.
C18_GraceNoteLaw ==
  [][/\ GraceStep => UNCHANGED <<cursor, maxCursor, voiceCursors, inChord,
                                 chordMinDuration, chordStartTime>>
     /\ GraceTimeLaw'
     /\ GraceEventShape']_vars

\* the grace event is 0.125 before the cursor it was walked at, and walking
\* it changes nothing else
C18_GraceAtCursor ==
  [][/\ GraceStep => UNCHANGED <<cursor, maxCursor, voiceCursors, inChord,
                                 chordMinDuration, chordStartTime>>
     /\ \A i \in DOMAIN hist' :
          IsGraceAt(i)'
            => hist'[i].mstart + hist'[i].onset
                 = Max(0, hist'[i].mstart + hist'[i].cursorAfter - GraceDuration)
     /\ GraceEventShape']_vars

\* ------------------------------------------------------------ C19 (SpecTie)

\* every grace event merged so far is an output event of its own, at its own
\* time and with its own duration, and no other event was merged into it
GracePassedThrough ==
  \A k \in DOMAIN owner :
    notes[k].isGrace
      => /\ owner[k] \in DOMAIN merged
         /\ merged[owner[k]].time = notes[k].time
         /\ merged[owner[k]].duration = GraceDuration
         /\ \A j \in DOMAIN owner : j # k => owner[j] # owner[k]

\* the step merges a grace event
GraceMergeStep ==
  Len(owner') = Len(owner) + 1 /\ notes'[Len(owner')].isGrace

\* C19: a grace event is pushed to the output as it is: merging it changes
\* no event already in the output and no tie-map entry, and it stays in the
\* output with its duration 0.125 whatever is merged later, also while a tie
\* for its pitch is open.
C19_GraceNeverMerged ==
  [][/\ GraceMergeStep
          => /\ tieMap' = tieMap
             /\ Len(merged') = Len(merged) + 1
             /\ SubSeq(merged', 1, Len(merged)) = merged
     /\ GracePassedThrough']_vars

\* a grace event of pitch C4 between the two segments of a C4 tie, the tie
\* merged around it
C19_Witness ==
  /\ Len(owner) = 3
  /\ notes[1].tieStart /\ notes[1].pitch = "C4"
  /\ notes[2].isGrace
  /\ notes[3].tieStop /\ notes[3].pitch = "C4"
  /\ owner = <<1, 2, 1>>
  /\ merged[1].duration = notes[1].duration + notes[3].duration

\* ------------------------------------------------------------------ C20

\* the measure cursor and every saved per-voice cursor
CursorsNonNegative ==
  /\ cursor >= 0
  /\ \A k \in DOMAIN voiceCursors : voiceCursors[k] >= 0

\* the element the walk has just processed
LastWalked == hist'[Len(hist')].el

\* a step of the walk over a <backup> whose duration exceeds the cursor it
\* moves
BackupPastZero ==
  /\ Len(hist') = Len(hist) + 1
  /\ LastWalked.tag = "backup"
  /\ divisions > 0
  /\ RawQuarters(LastWalked, divisions) > 0
  /\ RawQuarters(LastWalked, divisions) >
       (IF currentVoice # Null
        THEN ChordAdjusted(cursor, inChord, chordMinDuration, chordStartTime)
        ELSE cursor)

\* every note walked so far has non-negative tuplet counts
PlainTuplets ==
  \A k \in DOMAIN hist :
    (hist[k].el.tag = "note" /\ hist[k].el.timeMod)
      => (hist[k].el.normal >= 0 /\ hist[k].el.actual >= 0)

\* C20: in every state of the measure walk the cursor and every saved
\* per-voice cursor are >= 0, whatever notes, rests, chords, backups and
\* forwards were walked
C20_CursorsNeverNegative == pc = "walk" => CursorsNonNegative

\* C20, the clamp: a backup larger than the cursor leaves the cursor at
\* exactly 0
C20_BackupClampsAtZero == [][BackupPastZero => cursor' = 0]_vars

\* C20 for documents whose tuplet counts are not negative
C20_PlainTupletsNonNegative == (pc = "walk" /\ PlainTuplets) => CursorsNonNegative

\* -------------------------------------------------------- C21 (SpecMeasure)

\* the step walks into the next measure of the part
MeasureStep ==
  /\ Len(hist') = Len(hist) + 1
  /\ LastWalked.tag = "measure"

\* the step walks a note or a rest that moves the cursor: a rest that is not
\* a chord member and has a positive duration, or a pitched note that starts
\* a new onset
AdvancingStep ==
  /\ Len(hist') = Len(hist) + 1
  /\ LastWalked.tag = "note"
  /\ ~LastWalked.cue /\ ~LastWalked.grace
  /\ IF LastWalked.rest
     THEN ~LastWalked.chord /\ getDurationInQuarters(LastWalked, divisions) > 0
     ELSE /\ LastWalked.hasPitch
          /\ ~(LastWalked.chord /\ ~prevWasRest)

\* maxCursor is the furthest cursor value a note or a rest of the measure has
\* reached: 0 when the measure begins, raised by each note or rest that moves
\* the cursor, and touched by nothing else
MaxCursorIsFurthest ==
  IF Len(hist') = Len(hist) + 1 /\ LastWalked.tag \in {"measure", "part"}
  THEN maxCursor' = 0
  ELSE IF AdvancingStep THEN maxCursor' = Max(maxCursor, cursor')
  ELSE maxCursor' = maxCursor

\* the measure that ends holds one whole note and nothing else, in 4/4
OneWholeNote ==
  /\ Len(hist) = 1
  /\ hist[1].el.tag = "note" /\ hist[1].el.type = "whole"
  /\ currentBeats = 4 /\ currentBeatType = 4

\* C21: the start time of measure k+1 is the start time of measure k plus
\* max(beats*4/beatType, maxCursor), maxCursor being the furthest cursor value
\* reached by a note or rest of measure k; a 4/4 measure holding one whole
\* note advances by 4 quarters.
C21_MeasureAdvance ==
  [][/\ MaxCursorIsFurthest
     /\ MeasureStep =>
          /\ measureStartTime' = measureStartTime
               + Max(Quot(currentBeats * 4 * TicksPerQuarter, currentBeatType),
                     maxCursor)
          /\ OneWholeNote => measureStartTime' = 4 * TicksPerQuarter]_vars

\* C21, the example's output: a document of one whole note yields one event
\* {time 0, duration 4}
C21_WholeNoteEvent ==
  (pc = "done" /\ Len(hist) >= 1 /\ hist[1].el.tag = "note"
     /\ hist[1].el.type = "whole"
     /\ \A k \in 2..Len(hist) : hist[k].el.tag \in {"measure", "part"})
    => /\ Len(merged) = 1
       /\ merged[1].time = 0
       /\ merged[1].duration = 4 * TicksPerQuarter

\* a second measure has begun after a measure in 1/4 that held a whole note:
\* the content was longer than the time signature
C21_Witness ==
  /\ pc = "walk"
  /\ Len(hist) = 2
  /\ hist[2].el.tag = "measure"
  /\ hist[1].el.tag = "note" /\ hist[1].el.type = "whole"
  /\ beats = 1
  /\ measureStartTime = 4 * TicksPerQuarter

\* a second measure has begun after a 4/4 measure that held one quarter note
C21_WitnessShort ==
  /\ pc = "walk"
  /\ Len(hist) = 2
  /\ hist[2].el.tag = "measure"
  /\ hist[1].el.tag = "note" /\ hist[1].el.type = "quarter"
  /\ hist[1].cursorAfter = TicksPerQuarter
  /\ measureStartTime = 4 * TicksPerQuarter

\* --------------------------------------------------------- C22 (SpecChords)

\* the number of highlightNotesAtTime() calls pass p has made for key k
HighlightsOf(p, k) ==
  Cardinality({i \in DOMAIN cursorCalls[p].highlightNotesAtTime :
                 cursorCalls[p].highlightNotesAtTime[i] = k})

\* C22: within one scheduling pass, each group of notes sharing a rounded
\* onset key whose callbacks have run has caused exactly one
\* highlightNotesAtTime() call, and every group but the first exactly one
\* advanceCursor() call: K distinct onsets played make K - 1 cursor advances.
C22_OneAdvancePerOnset ==
  \A p \in DOMAIN cursorCalls :
    /\ \A k \in cursorCalls[p].drawn : HighlightsOf(p, k) = 1
    /\ Range(cursorCalls[p].highlightNotesAtTime) \subseteq cursorCalls[p].drawn
    /\ cursorCalls[p].drawn # {}
         => cursorCalls[p].advanceCursor = Cardinality(cursorCalls[p].drawn) - 1
    /\ cursorCalls[p].drawn = {} => cursorCalls[p].advanceCursor = 0

\* a pass that scheduled the five notes of the chord document has run all its
\* callbacks: three onsets, two advances
C22_Witness ==
  \E p \in DOMAIN cursorCalls :
    /\ Cardinality(cursorCalls[p].keys) = 3
    /\ cursorCalls[p].drawn = cursorCalls[p].keys
    /\ cursorCalls[p].advanceCursor = 2
    /\ drawQueue = <<>>
    /\ \A i \in DOMAIN triggers : triggers[i] >= 1

\* ---------------------------------------------------------- C23 (SpecSched)

\* the step is the rest of a play() call, after its awaits, whose document
\* has no notes
EmptyPlayStep ==
  \E i \in DOMAIN calls :
    /\ calls[i].stage = "ready"
    /\ calls[i].doc = <<>>
    /\ calls' = Remove(calls, i)

\* C23: play() of a document without notes schedules nothing, does not start
\* the transport, leaves isPlaying as it is (false when no other call started
\* playback meanwhile) and returns without an exception.
C23_EmptyPlayIsNoOp ==
  [][EmptyPlayStep
       => /\ UNCHANGED <<timeline, scheduledEvents, nextId, pass>>
          /\ UNCHANGED <<transportState, transportPos, startTime>>
          /\ isPlaying' = isPlaying
          /\ lastOp'.outcome = "fulfilled"]_vars

\* a play() of an empty document, called while Stopped with no other call in
\* flight, has returned: nothing is scheduled and nothing plays
C23_Witness ==
  /\ lastOp.op = "playEmpty"
  /\ calls = <<>>
  /\ pianoRef
  /\ ~isPlaying
  /\ transportState = "stopped"
  /\ timeline = {}

\* ---------------------------------------------------------- C24 (SpecSched)

\* the step is the failure of the sample loading of a play() call
LoadFailureStep ==
  \E i \in DOMAIN calls :
    /\ calls[i].stage = "load"
    /\ calls' = Remove(calls, i)

\* C24: when the sample loading fails during play(), that call goes no
\* further: it schedules nothing, does not start the transport, leaves
\* isPlaying as it is, and isLoading is false again.
C24_LoadFailureStopsPlay ==
  [][LoadFailureStep
       => /\ UNCHANGED <<timeline, scheduledEvents, nextId, pass>>
          /\ UNCHANGED <<transportState, transportPos, startTime, pianoRef>>
          /\ isPlaying' = isPlaying
          /\ ~isLoading']_vars

\* the loading of the only play() call has failed: Stopped, nothing scheduled,
\* not loading
C24_Witness ==
  /\ lastOp.op = "loadFailed"
  /\ calls = <<>>
  /\ ~pianoRef
  /\ ~isPlaying
  /\ ~isLoading
  /\ transportState = "stopped"
  /\ timeline = {}

\* ---------------------------------------------------------- C25 (SpecSched)

\* C25: a play() whose sample loading failed is settled as rejected, not as a
\* call that succeeded is.
C25_FailureRejects ==
  lastOp.op = "loadFailed" => lastOp.outcome = "rejected"

\* the same, as a difference from the outcome of a successful call
C25_FailureDiffersFromSuccess ==
  lastOp.op = "loadFailed" => lastOp.outcome # Returned

\* --------------------------------------------------------- C26 (SpecFaulty)

\* OSMD threw in a cursor call made by a draw callback of this step
DrawFaultStep ==
  \E p \in DOMAIN cursorCalls :
    /\ p \in DOMAIN cursorCalls'
    /\ cursorCalls'[p].faults > cursorCalls[p].faults

\* the step is the rest of a play() call, after its awaits, whose document
\* has notes
NotedPlayStep ==
  \E i \in DOMAIN calls :
    /\ calls[i].stage = "ready"
    /\ calls[i].doc # <<>>
    /\ calls' = Remove(calls, i)

\* every note of the cached list has an event of the newest pass ahead
AllScheduled ==
  \A i \in DOMAIN notesRef :
    \E e \in timeline : e.kind = "note" /\ e.idx = i /\ e.pass = pass /\ ~e.fired

\* the step is the auto-stop of a run that was started from Stopped by one
\* play() and not paused since
CleanAutoStop ==
  /\ lastOp'.op = "stop" /\ lastOp'.auto /\ ~lastOp'.stale
  /\ runClean

\* C26: a cursor call in which OSMD throws never aborts audio playback. A
\* draw callback whose advanceCursor or highlightNotesAtTime failed leaves
\* isPlaying, the scheduled events, the transport and the audio triggers as
\* they are; play() schedules every note and starts the transport whatever
\* resetCursor met; pause() pauses whatever clearHighlights met; and a run
\* that is not interrupted sounds each of its notes once.
C26_FaultsNeverAbortAudio ==
  [][/\ DrawFaultStep
          => UNCHANGED <<isPlaying, scheduledEvents, timeline, transportState,
                         transportPos, startTime, triggers, notesRef>>
     /\ NotedPlayStep
          => /\ isPlaying' /\ transportState' = "started"
             /\ AllScheduled'
     /\ (lastOp'.op = "pause" /\ isPlaying)
          => ~isPlaying' /\ transportState' = "paused" /\ timeline' = timeline
     /\ CleanAutoStop
          => \A i \in DOMAIN triggers : triggers'[i] = 1]_vars

\* a run in which OSMD threw in resetCursor and in two draw callbacks has
\* reached its auto-stop, each note having sounded once
C26_Witness ==
  /\ lastOp.op = "stop" /\ lastOp.auto /\ ~lastOp.stale
  /\ pass = 1
  /\ cursorCalls[1].faults >= 3
  /\ \A i \in DOMAIN triggers : triggers[i] = 1

\* -------------------------------------------------------- C27 (SpecDisplay)

\* the step is a call of advanceCursor()
AdvanceCall == lastOp'.op = "advanceCursor"

\* the steps between the one the cursor left and the one it stopped on, the
\* first one after the start aside, are rest-only
SkippedRestsOnly ==
  \A p \in (visCursor + 1)..(visCursor' - 1) : ~cursorHasNotes(score[p])

\* the cursor stops on the end or on a step with a sounding note, and true is
\* returned just when it is not the end
StopsOnNoteOrEnd ==
  /\ lastOp'.arg = (visCursor' \in DOMAIN score)
  /\ visCursor' \in DOMAIN score => cursorHasNotes(score[visCursor'])

\* C27 as stated: every advanceCursor() call moves the cursor forward by at
\* least one step, skips rest-only steps, and returns true exactly when it
\* stops on a step, which then holds a sounding note.
C27_AlwaysAdvances ==
  [][AdvanceCall
       => /\ visCursor' >= visCursor + 1
          /\ SkippedRestsOnly
          /\ StopsOnNoteOrEnd]_vars

\* C27 amended: the same for a call made before the end of the score; a call
\* made at the end leaves the cursor there and returns false.
C27_AdvancesUnlessAtEnd ==
  [][AdvanceCall
       => IF visCursor \in DOMAIN score
          THEN /\ visCursor' >= visCursor + 1
               /\ SkippedRestsOnly
               /\ StopsOnNoteOrEnd
          ELSE visCursor' = visCursor /\ lastOp'.arg = FALSE]_vars

\* advanceCursor() has skipped a rest-only step and stopped on a note
C27_Witness ==
  /\ lastOp.op = "advanceCursor"
  /\ lastOp.arg = TRUE
  /\ visCursor = 3
  /\ score[2] = "rest"
  /\ score[3] = "note"

\* -------------------------------------------------------- C28 (SpecDisplay)

\* C28: after resetCursor() the cursor stands on the first step, counted from
\* the start, that holds a non-rest note, or at the end when no step does.
C28_ResetOnFirstNote ==
  lastOp.op = "resetCursor"
    => /\ \A p \in 1..(visCursor - 1) : p \in DOMAIN score /\ score[p] = "rest"
       /\ visCursor \in DOMAIN score => score[visCursor] # "rest"
       /\ visCursor \in 1..(Len(score) + 1)

\* resetCursor() on a score with a leading rest, from a later step
C28_Witness ==
  /\ lastOp.op = "resetCursor"
  /\ Len(score) = 3
  /\ score[1] = "rest" /\ score[2] = "note"
  /\ visCursor = 2

\* -------------------------------------------------------- C29 (SpecDisplay)

\* the steps of the score that hold a non-rest note, counted from 0
NoteSteps == {p - 1 : p \in {q \in DOMAIN score : score[q] # "rest"}}

\* C29: buildCursorTimeMap() returns one entry per step that holds a non-rest
\* note, none for a rest-only step, in strictly increasing cursorIndex order,
\* cursorIndex being the number of steps from the start.
C29_TimeMapEntries ==
  lastOp.op = "buildCursorTimeMap"
    => /\ {lastOp.arg[k].cursorIndex : k \in DOMAIN lastOp.arg} = NoteSteps
       /\ Len(lastOp.arg) = Cardinality(NoteSteps)
       /\ \A k \in 1..(Len(lastOp.arg) - 1) :
            lastOp.arg[k].cursorIndex < lastOp.arg[k + 1].cursorIndex

\* the map of a score of a note, a rest and a note: entries 0 and 2
C29_Witness ==
  /\ lastOp.op = "buildCursorTimeMap"
  /\ score = <<"note", "rest", "note">>
  /\ Len(lastOp.arg) = 2
  /\ lastOp.arg[2].cursorIndex = 2

\* --------------------------------------------------------------- C30 (SpecTie)

\* the raw event that was pushed as merged[idx]
Creator(idx) == notes[CHOOSE i \in DOMAIN owner : owner[i] = idx /\
                        \A j \in DOMAIN owner : owner[j] = idx => i <= j]

\* two raw events of one pitch, staff, part and voice
SameVoice(a, b) ==
  /\ a.pitch = b.pitch
  /\ a.staff = b.staff
  /\ a.partIndex = b.partIndex
  /\ a.voice = b.voice

\* the merge has taken one more raw event
MergedOne == Len(notes') = Len(notes) + 1

\* C30: a raw event's duration is added to a representative only of its own
\* pitch, staff, part and voice, and an event leaves the representative and the
\* open tie of every other key as they were.
C30_NoCrossKeyMerge ==
  [][MergedOne =>
       LET ev == notes'[Len(notes')]
       IN  /\ \A idx \in DOMAIN merged :
                merged'[idx] # merged[idx] => SameVoice(ev, Creator(idx))
           /\ \A k \in DOMAIN tieMap :
                ~SameVoice(ev, Creator(tieMap[k]))
                  => /\ k \in DOMAIN tieMap'
                     /\ tieMap'[k] = tieMap[k]
                     /\ merged'[tieMap[k]] = merged[tieMap[k]]]_vars

\* a tieStop of voice 2, at the pitch and onset of an open tie of voice 1, is
\* pushed as an event of its own and the open tie is then closed by its own
\* voice
C30_Witness ==
  /\ Len(notes) = 3
  /\ notes[1].tieStart /\ notes[1].voice = 1 /\ notes[1].pitch = "C4"
  /\ notes[2].tieStop /\ notes[2].voice = 2 /\ notes[2].pitch = "C4"
  /\ notes[2].time = notes[1].time
  /\ notes[3].tieStop /\ SameVoice(notes[3], notes[1])
  /\ owner = <<1, 2, 1>>
  /\ tieMap = <<>>

\* --------------------------------------------------------- C31 (SpecDivisions)

\* the walk has taken a backup, a forward, or a note or rest without <type>,
\* of a positive raw tick count, in a document whose inference loop stopped at
\* a note walked before
RawConversion ==
  /\ Len(hist') = Len(hist) + 1
  /\ LastWalked.tag \in {"backup", "forward", "note"}
  /\ LastWalked.tag = "note" => LastWalked.type \notin DOMAIN typeToQuarters
  /\ LastWalked.duration > 0
  /\ InferFrom(Walked) # 0

\* the quarters the walk moved the cursor by, for a forward and for a rest
\* or a first note of a voice
MovedBy == hist'[Len(hist')].cursorAfter - cursor

\* C31: once a note has yielded inferred divisions I >= 1, the walk converts
\* the raw ticks of a backup, a forward and a type-less note or rest by I,
\* whatever <divisions> the document declares.
C31_InferredIsEffective ==
  [][RawConversion
       => /\ divisions = InferFrom(Walked)
          /\ LastWalked.tag = "forward"
               => MovedBy = RawQuarters(LastWalked, InferFrom(Walked))]_vars

\* C31, where no measure declares <divisions> other than the inferred ones:
\* the raw ticks are converted by I.
C31_EffectiveWhenUndeclared ==
  [][RawConversion /\ divisions = globalDivisions
       => /\ divisions = InferFrom(Walked)
          /\ LastWalked.tag = "forward"
               => MovedBy = RawQuarters(LastWalked, InferFrom(Walked))]_vars

\* ------------------------------------------------------------- C32 (SpecParse)

\* the notes and rests walked so far in the measure being walked
VoicedBefore ==
  {k \in DOMAIN hist :
     /\ hist[k].part = partIndex
     /\ hist[k].measure = measureIndex
     /\ hist[k].el.tag = "note"
     /\ ~hist[k].el.grace}

\* the voice of the latest of them, Null at the start of a measure
OutgoingVoice ==
  IF VoicedBefore = {} THEN Null
  ELSE VoiceKey(hist[CHOOSE k \in VoicedBefore :
                       \A j \in VoicedBefore : j <= k].el)

\* the walk takes a pitched note that opens no chord member, of a voice that
\* has a saved cursor in this measure, the latest note or rest being of
\* another voice
SwitchToSeenVoice ==
  /\ Len(hist') = Len(hist) + 1
  /\ LastWalked.tag = "note"
  /\ hist'[Len(hist')].emitted
  /\ ~LastWalked.grace /\ ~LastWalked.chord
  /\ VoiceKey(LastWalked) \in DOMAIN voiceCursors
  /\ OutgoingVoice \notin {Null, VoiceKey(LastWalked)}

\* C32: a note of a voice seen earlier in the measure, walked after notes of
\* another voice, has that voice's saved cursor as onset, by an explicit voice
\* change and after a backup or a forward alike.
C32_SwitchRestoresSaved ==
  [][SwitchToSeenVoice
       => hist'[Len(hist')].onset = voiceCursors[VoiceKey(LastWalked)]]_vars

\* C32 for a switch with no backup since the outgoing voice's latest note:
\* the onset is the incoming voice's saved cursor.
C32_ExplicitSwitchRestores ==
  [][SwitchToSeenVoice /\ currentVoice # Null
       => hist'[Len(hist')].onset = voiceCursors[VoiceKey(LastWalked)]]_vars

\* ------------------------------------------------------------- C33 (SpecParse)

\* the pitched notes that open no chord member, walked so far in this measure
\* in the voice of key
OpenersOf(key) ==
  {k \in VoicedBefore :
     /\ hist[k].emitted
     /\ ~hist[k].el.chord
     /\ VoiceKey(hist[k].el) = key}

\* the walk takes a chord-marked pitched note whose voice has such a note
ChordMemberStep ==
  /\ Len(hist') = Len(hist) + 1
  /\ LastWalked.tag = "note"
  /\ hist'[Len(hist')].emitted
  /\ ~LastWalked.grace /\ LastWalked.chord
  /\ OpenersOf(VoiceKey(LastWalked)) # {}

\* the onset of the latest of them
OpenerOnset(key) ==
  hist[CHOOSE k \in OpenersOf(key) : \A j \in OpenersOf(key) : j <= k].onset

\* C33: a chord-marked note has the onset of the most recent non-rest,
\* non-chord note of its own staff and voice in the measure.
C33_ChordOnsetOfOwnVoice ==
  [][ChordMemberStep
       => hist'[Len(hist')].onset = OpenerOnset(VoiceKey(LastWalked))]_vars

\* C33 for a chord-marked note that directly follows the non-chord note of its
\* own voice: it has that note's onset.
C33_ChordDirectlyAfterOpener ==
  [][ChordMemberStep /\ Len(hist) \in OpenersOf(VoiceKey(LastWalked))
       => hist'[Len(hist')].onset = OpenerOnset(VoiceKey(LastWalked))]_vars

\* --------------------------------------------------------- C34 (SpecDivisions)

RECURSIVE Pow2(_)
Pow2(k) == IF k = 0 THEN 1 ELSE 2 * Pow2(k - 1)

\* base * (2 - 1/2^k) * (normal / actual) for a recognised <type>, else
\* rawTicks / divisions, and 0 without a positive raw tick count
StatedDuration(el) ==
  IF el.type \in DOMAIN typeToQuarters
  THEN Quot(typeToQuarters[el.type] * (2 * Pow2(el.dots) - 1)
              * getTupletRatio(el)[1],
            Pow2(el.dots) * getTupletRatio(el)[2])
  ELSE IF el.duration > 0 /\ divisions > 0
  THEN Quot(el.duration * TicksPerQuarter, divisions)
  ELSE 0

\* the walk takes a pitched note that opens no chord member: it emits an
\* event and moves the cursor on from the event's onset
NewNoteStep ==
  /\ Len(hist') = Len(hist) + 1
  /\ LastWalked.tag = "note"
  /\ ~LastWalked.grace /\ ~LastWalked.chord
  /\ hist'[Len(hist')].emitted

\* the cursor advance of the step
Advance == hist'[Len(hist')].cursorAfter - hist'[Len(hist')].onset

OrphanStop ==
  /\ MergedOne
  /\ ~notes'[Len(notes')].isGrace
  /\ notes'[Len(notes')].tieStop
  /\ Key(notes'[Len(notes')]) \notin DOMAIN tieMap

\* C35: a non-grace tieStop event without an open tie of its key is appended
\* to the output with its own time and duration, the events before it staying
\* as they were, and it opens a tie entry only if it has tieStart as well.
C35_OrphanStopKept ==
  [][OrphanStop =>
       LET ev == notes'[Len(notes')]
       IN  /\ Len(merged') = Len(merged) + 1
           /\ SubSeq(merged', 1, Len(merged)) = merged
           /\ merged'[Len(merged')].pitch = ev.pitch
           /\ merged'[Len(merged')].time = ev.time
           /\ merged'[Len(merged')].duration = ev.duration
           /\ (Key(ev) \in DOMAIN tieMap') = ev.tieStart
           /\ ev.tieStart => tieMap'[Key(ev)] = Len(merged')
           /\ \A k \in DOMAIN tieMap :
                k \in DOMAIN tieMap' /\ tieMap'[k] = tieMap[k]]_vars

\* a half-note tieStop with no tie open is in the output as an event of two
\* quarters, and a second one after it as well: no tie entry was opened
C35_Witness ==
  /\ Len(notes) = 2
  /\ \A k \in 1..2 : /\ notes[k].tieStop /\ ~notes[k].tieStart
                     /\ ~notes[k].isGrace
                     /\ Key(notes[k]) = "C4-1-0-1"
  /\ notes[1].duration = 2 * TicksPerQuarter
  /\ Len(merged) = 2
  /\ merged[1].duration = 2 * TicksPerQuarter
  /\ tieMap = <<>>

\* -------------------------------------------------------------- C36 (SpecLong)

\* the auto-stop of a pass and a note of the same pass, both on the transport
SamePass(e, n) == e.kind = "end" /\ n.kind = "note" /\ e.pass = n.pass

\* C36: in every scheduling pass the auto-stop is scheduled no earlier than
\* the end, (time + duration) * secondsPerQuarter - startOffset, of every note
\* the pass scheduled.
C36_AutoStopAfterEveryNote ==
  \A e \in timeline : \A n \in timeline :
    SamePass(e, n) => e.time >= n.time + n.dur

\* C36 for the note of the latest onset: the auto-stop is scheduled after its
\* end.
C36_AutoStopAfterLastOnset ==
  \A e \in timeline : \A n \in timeline :
    (SamePass(e, n) /\ \A m \in timeline : SamePass(e, m) => m.time <= n.time)
      => e.time >= n.time + n.dur

\* ------------------------------------------------------------- C37 (SpecSched)

\* the step is a setTempo call made while Playing
TempoChangeWhilePlaying ==
  /\ nOps' = nOps + 1
  /\ lastOp'.op = "setTempo"
  /\ lastOp'.from = "Playing"

\* C37: a tempo change during playback leaves the visual cursor on the step it
\* was on.
C37_TempoKeepsCursor ==
  [][TempoChangeWhilePlaying => visCursor' = visCursor]_vars

\* C37 for the highlight: a tempo change during playback leaves it as it was.
C37_TempoKeepsHighlight ==
  [][TempoChangeWhilePlaying => highlighted' = highlighted]_vars

\* ----------------------------------------------------------- C38 (SpecDisplay)

\* resetCursor() and then k advanceCursor() calls were made, on a score of
\* more than k steps with a note
SteppedTo(k) ==
  /\ lastOp.op \in {"resetCursor", "advanceCursor"}
  /\ lastOp.elapsed = k
  /\ k < Len(TimeMapFrom(1))

\* C38: after resetCursor() and k advanceCursor() calls, on a score of at
\* least k + 1 steps with a note, the cursor stands on the step of the time
\* map's entry k, and moveCursorToPosition() of that entry's cursorIndex
\* returns true and reaches the same step.
C38_StepwiseAgreesWithMap ==
  \A k \in 0..Len(score) :
    SteppedTo(k) =>
      LET cursorIndex == TimeMapFrom(1)[k + 1].cursorIndex
      IN  /\ visCursor - 1 = cursorIndex
          /\ MoveCursorReturns(cursorIndex)
          /\ MoveCursorPos(cursorIndex) = visCursor

\* on a score of a note, a rest and a note, resetCursor() and one
\* advanceCursor() have brought the cursor to the step of index 2
C38_Witness ==
  /\ score = <<"note", "rest", "note">>
  /\ SteppedTo(1)
  /\ visCursor = 3
  /\ TimeMapFrom(1)[2].cursorIndex = 2

\* --------------------------------------------------------- C39 (SpecLoopsFair)

\* the cursor is never past the end, and a returned advanceCursor or
\* resetCursor has left it on a step with a note or, no such step being
\* ahead, at the end
StopsAtEnd ==
  /\ visCursor \in 1..(Len(score) + 1)
  /\ (lastOp.outcome = "returned"
        /\ lastOp.op \in {"advanceCursor", "resetCursor"})
       => \/ visCursor = Len(score) + 1
          \/ cursorHasNotes(score[visCursor])

\* C39: every call of advanceCursor, resetCursor, buildCursorTimeMap and
\* moveCursorToPosition returns, on a score of rests only and from the end as
\* well, and a skip loop that finds no further step with a note stops at the
\* end.
C39_CursorMethodsTerminate ==
  /\ [](lastOp.op \in CursorMethods => StopsAtEnd)
  /\ (lastOp.outcome = "running") ~> (lastOp.outcome = "returned")

\* resetCursor() on a score of three rests has returned with the cursor at
\* the end
C39_Witness ==
  /\ score = <<"rest", "rest", "rest">>
  /\ lastOp.op = "resetCursor"
  /\ lastOp.outcome = "returned"
  /\ visCursor = 4

============================================================================
